---- MODULE Spec2Model ----
(***************************************************************************)
(* Model of the UPI parameter engine of upi-intent (src/src/core/params.ts)*)
(*                                                                         *)
(* A JavaScript string is a sequence of one-character strings, so that     *)
(* trimming, pattern tests, percent-encoding and URL splitting are         *)
(* computed character by character.  An object (PartialUpiParams) is a     *)
(* sequence of <<key, value>> pairs with distinct keys, in the insertion   *)
(* order that Object.entries enumerates.  Error messages are TLA+ strings. *)
(***************************************************************************)
EXTENDS Integers, Sequences, FiniteSets, TLC

(***************************************************************************)
(* Bounds of the model.                                                    *)
(***************************************************************************)
\* longest free-text value enumerated over TextAlphabet
MaxLen == 2
\* most optional/unknown entries added next to pa, pn, am, cu
MaxExtra == 2

(***************************************************************************)
(* Characters and strings.                                                 *)
(***************************************************************************)
\* the printable ASCII characters, Ascii[i] has code 31 + i (the grave accent
\* is written by its code point)
Ascii ==
   << " ", "!", "\"", "#", "$", "%", "&", "'", "(", ")", "*", "+",
      ",", "-", ".", "/", "0", "1", "2", "3", "4", "5", "6", "7",
      "8", "9", ":", ";", "<", "=", ">", "?", "@", "A", "B", "C",
      "D", "E", "F", "G", "H", "I", "J", "K", "L", "M", "N", "O",
      "P", "Q", "R", "S", "T", "U", "V", "W", "X", "Y", "Z", "[",
      "\\", "]", "^", "_", "U+0060", "a", "b", "c", "d", "e", "f", "g",
      "h", "i", "j", "k", "l", "m", "n", "o", "p", "q", "r", "s",
      "t", "u", "v", "w", "x", "y", "z", "{", "|", "}", "~" >>

\* the code unit of a character of the model
CharCode(c) ==
   CASE c = "\t" -> 9
     [] c = "\n" -> 10
     [] c = "\r" -> 13
     [] OTHER -> 31 + (CHOOSE i \in 1..Len(Ascii) : Ascii[i] = c)

\* the character of a byte; bytes outside the model's characters decode to
\* the replacement character
CharOfCode(n) ==
   CASE n = 9 -> "\t"
     [] n = 10 -> "\n"
     [] n = 13 -> "\r"
     [] n >= 32 /\ n <= 126 -> Ascii[n - 31]
     [] OTHER -> "U+FFFD"

Digit == {"0", "1", "2", "3", "4", "5", "6", "7", "8", "9"}
Upper == {Ascii[i] : i \in 34..59}
Lower == {Ascii[i] : i \in 66..91}
Alnum == Digit \cup Upper \cup Lower

\* what String.prototype.trim removes (the part of it the model has)
WhiteSpace == {" ", "\t", "\n", "\r"}
\* what "." of a regular expression does not match
LineTerminator == {"\n", "\r"}

Min(S) == CHOOSE m \in S : \A n \in S : m <= n
Max(S) == CHOOSE m \in S : \A n \in S : m >= n

\* Trim removing leading white space only
TrimStart(s) ==
   IF \A i \in 1..Len(s) : s[i] \in WhiteSpace THEN <<>>
   ELSE LET first == CHOOSE i \in 1..Len(s) :
                        s[i] \notin WhiteSpace /\ \A j \in 1..(i - 1) : s[j] \in WhiteSpace
        IN  SubSeq(s, first, Len(s))

\* String.prototype.trim
Trim(s) ==
   IF \A i \in 1..Len(s) : s[i] \in WhiteSpace THEN <<>>
   ELSE LET first == CHOOSE i \in 1..Len(s) :
                        s[i] \notin WhiteSpace /\ \A j \in 1..(i - 1) : s[j] \in WhiteSpace
            last == CHOOSE i \in 1..Len(s) :
                       s[i] \notin WhiteSpace /\ \A j \in (i + 1)..Len(s) : s[j] \in WhiteSpace
        IN  SubSeq(s, first, last)

\* n copies of the character c
Rep(c, n) == [i \in 1..n |-> c]

\* the characters of s as one TLA+ string (for messages)
RECURSIVE Str(_)
Str(s) == IF s = <<>> THEN "" ELSE s[1] \o Str(Tail(s))

\* Array.prototype.join on an array of messages
RECURSIVE Join(_, _)
Join(msgs, sep) ==
   IF msgs = <<>> THEN ""
   ELSE IF Len(msgs) = 1 THEN msgs[1]
   ELSE msgs[1] \o sep \o Join(Tail(msgs), sep)

\* \A and \E over the positions lo..hi of s
AllIn(s, lo, hi, class) == \A i \in lo..hi : s[i] \in class

\* s starts with the characters of p
StartsWith(s, p) == Len(s) >= Len(p) /\ SubSeq(s, 1, Len(p)) = p

(***************************************************************************)
(* Objects: ordered key/value maps.                                        *)
(***************************************************************************)
Keys(obj) == {obj[i][1] : i \in 1..Len(obj)}
Has(obj, k) == k \in Keys(obj)
Get(obj, k) == obj[CHOOSE i \in 1..Len(obj) : obj[i][1] = k][2]
\* obj[k] = v : an existing key keeps its place, a new key goes last
ObjSet(obj, k, v) ==
   IF Has(obj, k)
   THEN [i \in 1..Len(obj) |-> IF obj[i][1] = k THEN <<k, v>> ELSE obj[i]]
   ELSE Append(obj, <<k, v>>)
\* the entries of an object, order forgotten
Entries(obj) == {obj[i] : i \in 1..Len(obj)}

(***************************************************************************)
(* application/x-www-form-urlencoded, as URLSearchParams does it.          *)
(***************************************************************************)
HexDigits == <<"0", "1", "2", "3", "4", "5", "6", "7",
               "8", "9", "A", "B", "C", "D", "E", "F">>
\* the value of a hexadecimal digit, -1 if c is none
HexValue(c) ==
   IF \E i \in 1..16 : HexDigits[i] = c
   THEN (CHOOSE i \in 1..16 : HexDigits[i] = c) - 1
   ELSE IF c \in {"a", "b", "c", "d", "e", "f"}
        THEN CharCode(c) - 87
        ELSE -1

\* characters the serializer leaves as they are
FormUnreserved == Alnum \cup {"*", "-", ".", "_"}

\* EncodeChar with "+" left as it is
EncodeCharPlusRaw(c) ==
   IF c \in FormUnreserved \cup {"+"} THEN <<c>>
   ELSE IF c = " " THEN <<"+">>
   ELSE <<"%", HexDigits[(CharCode(c) \div 16) + 1], HexDigits[(CharCode(c) % 16) + 1]>>

\* URLSearchParams serializer, one character
EncodeChar(c) ==
   IF c \in FormUnreserved THEN <<c>>
   ELSE IF c = " " THEN <<"+">>
   ELSE <<"%", HexDigits[(CharCode(c) \div 16) + 1], HexDigits[(CharCode(c) % 16) + 1]>>

\* URLSearchParams serializer, one name or value
RECURSIVE FormEncode(_)
FormEncode(s) ==
   IF s = <<>> THEN <<>> ELSE EncodeChar(s[1]) \o FormEncode(Tail(s))

\* URLSearchParams parser, one name or value, from position i on: "+" is a
\* space, %XX is a byte, any other "%" stays
RECURSIVE FormDecodeFrom(_, _)
FormDecodeFrom(s, i) ==
   IF i > Len(s) THEN <<>>
   ELSE IF s[i] = "+" THEN <<" ">> \o FormDecodeFrom(s, i + 1)
   ELSE IF s[i] = "%" /\ Len(s) >= i + 2 /\ HexValue(s[i + 1]) >= 0 /\ HexValue(s[i + 2]) >= 0
        THEN <<CharOfCode(16 * HexValue(s[i + 1]) + HexValue(s[i + 2]))>>
                \o FormDecodeFrom(s, i + 3)
   ELSE <<s[i]>> \o FormDecodeFrom(s, i + 1)
FormDecode(s) == FormDecodeFrom(s, 1)

\* URLSearchParams.prototype.toString of a list of appended pairs
RECURSIVE SearchParamsToString(_)
SearchParamsToString(pairs) ==
   IF pairs = <<>> THEN <<>>
   ELSE FormEncode(pairs[1][1]) \o <<"=">> \o FormEncode(pairs[1][2])
           \o (IF Len(pairs) > 1 THEN <<"&">> ELSE <<>>)
           \o SearchParamsToString(Tail(pairs))

\* the pieces of s between the occurrences of the character sep
Split(s, sep) ==
   LET at == {i \in 1..Len(s) : s[i] = sep}
       \* the n-th occurrence of sep; 0 before the first, Len(s) + 1 after the last
       Nth(n) == IF n = 0 THEN 0
                 ELSE IF n > Cardinality(at) THEN Len(s) + 1
                 ELSE CHOOSE i \in at : Cardinality({j \in at : j < i}) = n - 1
   IN  [n \in 1..(Cardinality(at) + 1) |-> SubSeq(s, Nth(n - 1) + 1, Nth(n) - 1)]

\* one "name=value" piece of a query: split at the first "="
ParsePair(piece) ==
   IF \E i \in 1..Len(piece) : piece[i] = "="
   THEN LET i == Min({j \in 1..Len(piece) : piece[j] = "="})
        IN  <<FormDecode(SubSeq(piece, 1, i - 1)),
              FormDecode(SubSeq(piece, i + 1, Len(piece)))>>
   ELSE <<FormDecode(piece), <<>>>>

\* url.searchParams.entries() of a query string (without its "?")
SearchParamsEntries(query) ==
   LET pieces == SelectSeq(Split(query, "&"), LAMBDA p : p # <<>>)
   IN  [i \in 1..Len(pieces) |-> ParsePair(pieces[i])]

(***************************************************************************)
(* Field names, actions and the validation rules (VALIDATION_RULES).       *)
(***************************************************************************)
pa == <<"p", "a">>
pn == <<"p", "n">>
am == <<"a", "m">>
cu == <<"c", "u">>
tr == <<"t", "r">>
tn == <<"t", "n">>
url == <<"u", "r", "l">>
mode == <<"m", "o", "d", "e">>
orgid == <<"o", "r", "g", "i", "d">>
sign == <<"s", "i", "g", "n">>
mc == <<"m", "c">>
tid == <<"t", "i", "d">>

INR == <<"I", "N", "R">>

\* UpiAction
pay == <<"p", "a", "y">>
mandate == <<"m", "a", "n", "d", "a", "t", "e">>
UpiAction == {pay, mandate}

\* /^[a-zA-Z0-9._-]+@[a-zA-Z0-9.-]+$/
VpaPattern(s) ==
   \E i \in 2..(Len(s) - 1) :
      /\ s[i] = "@"
      /\ AllIn(s, 1, i - 1, Alnum \cup {".", "_", "-"})
      /\ AllIn(s, i + 1, Len(s), Alnum \cup {".", "-"})

\* /^\d+(\.\d{1,2})?$/
AmountPattern(s) ==
   \/ Len(s) >= 1 /\ AllIn(s, 1, Len(s), Digit)
   \/ \E i \in 2..(Len(s) - 1) :
         /\ s[i] = "."
         /\ AllIn(s, 1, i - 1, Digit)
         /\ Len(s) - i <= 2
         /\ AllIn(s, i + 1, Len(s), Digit)

\* /^[a-zA-Z0-9\-]+$/
RefPattern(s) == Len(s) >= 1 /\ AllIn(s, 1, Len(s), Alnum \cup {"-"})

\* /^https?:\/\/.+/
UrlPattern(s) ==
   \/ /\ StartsWith(s, <<"h", "t", "t", "p", ":", "/", "/">>)
      /\ Len(s) >= 8 /\ s[8] \notin LineTerminator
   \/ /\ StartsWith(s, <<"h", "t", "t", "p", "s", ":", "/", "/">>)
      /\ Len(s) >= 9 /\ s[9] \notin LineTerminator

\* /^\d{4}$/
MccPattern(s) == Len(s) = 4 /\ AllIn(s, 1, 4, Digit)

\* rule.pattern.test(stringValue)
PatternTest(pattern, s) ==
   CASE pattern = "vpa" -> VpaPattern(s)
     [] pattern = "amount" -> AmountPattern(s)
     [] pattern = "ref" -> RefPattern(s)
     [] pattern = "url" -> UrlPattern(s)
     [] pattern = "mcc" -> MccPattern(s)

\* a rule; maxLength 0, pattern "none" and allowedValues <<>> stand for a
\* constraint the rule does not have (each is falsy in the code's tests)
Rule(maxLength, pattern, allowedValues, description) ==
   [maxLength |-> maxLength, pattern |-> pattern,
    allowedValues |-> allowedValues, description |-> description]

RuleKeys == {pa, pn, am, cu, tr, tn, url, mode, orgid, sign, mc, tid}

VALIDATION_RULES ==
   [k \in RuleKeys |->
      CASE k = pa -> Rule(255, "vpa", <<>>, "Valid VPA format (user@psp)")
        [] k = pn -> Rule(99, "none", <<>>, "Payee name")
        [] k = am -> Rule(18, "amount", <<>>, "Amount in INR (up to 2 decimal places)")
        [] k = cu -> Rule(0, "none", <<INR>>, "Currency code (must be INR)")
        [] k = tr -> Rule(35, "ref", <<>>, "Transaction reference (alphanumeric with hyphens)")
        [] k = tn -> Rule(100, "none", <<>>, "Transaction note")
        [] k = url -> Rule(200, "url", <<>>, "Valid HTTP/HTTPS URL")
        [] k = mode -> Rule(20, "none", <<>>, "Transaction mode")
        [] k = orgid -> Rule(20, "none", <<>>, "Organization ID")
        [] k = sign -> Rule(500, "none", <<>>, "Digital signature")
        [] k = mc -> Rule(4, "mcc", <<>>, "Merchant Category Code (4 digits)")
        [] k = tid -> Rule(35, "none", <<>>, "Transaction ID")]

(***************************************************************************)
(* validateUpiParams                                                       *)
(***************************************************************************)
\* the three messages of the per-key checks
LengthError(key, rule) ==
   Str(key) \o ": exceeds maximum length of " \o ToString(rule.maxLength) \o " characters"
PatternError(key, rule) == Str(key) \o ": invalid format. " \o rule.description
AllowedError(key, rule) ==
   Str(key) \o ": must be one of "
      \o Join([i \in 1..Len(rule.allowedValues) |-> Str(rule.allowedValues[i])], ", ")

\* !params[key] || params[key].trim() === ''
Missing(params, key) ==
   \/ ~Has(params, key)
   \/ Get(params, key) = <<>>
   \/ Trim(Get(params, key)) = <<>>

\* RequiredErrors stopping at the first missing field
RequiredErrorsShortCircuit(params) ==
   IF Missing(params, pa) THEN <<"Payee Address (pa) is required">>
   ELSE IF Missing(params, pn) THEN <<"Payee Name (pn) is required">>
   ELSE <<>>

\* the required-field checks: the errors the result starts with
RequiredErrors(params) ==
   (IF Missing(params, pa) THEN <<"Payee Address (pa) is required">> ELSE <<>>)
      \o (IF Missing(params, pn) THEN <<"Payee Name (pn) is required">> ELSE <<>>)

\* CheckRule testing the pattern before the length
CheckRulePatternFirst(acc, key, stringValue) ==
   LET rule == VALIDATION_RULES[key]
   IN  IF rule.pattern # "none" /\ ~PatternTest(rule.pattern, stringValue)
       THEN [acc EXCEPT !.errors = Append(@, PatternError(key, rule))]
       ELSE IF rule.maxLength # 0 /\ Len(stringValue) > rule.maxLength
       THEN [acc EXCEPT !.errors = Append(@, LengthError(key, rule))]
       ELSE IF /\ rule.allowedValues # <<>>
               /\ ~(\E i \in 1..Len(rule.allowedValues) : rule.allowedValues[i] = stringValue)
       THEN [acc EXCEPT !.errors = Append(@, AllowedError(key, rule))]
       ELSE [acc EXCEPT !.normalizedParams = ObjSet(@, key, stringValue)]

\* CheckRule keeping a value that it rejects
CheckRuleKeepRejected(acc, key, stringValue) ==
   LET rule == VALIDATION_RULES[key]
       kept == [acc EXCEPT !.normalizedParams = ObjSet(@, key, stringValue)]
   IN  IF rule.maxLength # 0 /\ Len(stringValue) > rule.maxLength
       THEN [kept EXCEPT !.errors = Append(@, LengthError(key, rule))]
       ELSE IF rule.pattern # "none" /\ ~PatternTest(rule.pattern, stringValue)
       THEN [kept EXCEPT !.errors = Append(@, PatternError(key, rule))]
       ELSE IF /\ rule.allowedValues # <<>>
               /\ ~(\E i \in 1..Len(rule.allowedValues) : rule.allowedValues[i] = stringValue)
       THEN [kept EXCEPT !.errors = Append(@, AllowedError(key, rule))]
       ELSE kept

\* the checks of one key with a rule, on the trimmed value
CheckRule(acc, key, stringValue) ==
   LET rule == VALIDATION_RULES[key]
   IN  IF rule.maxLength # 0 /\ Len(stringValue) > rule.maxLength
       THEN [acc EXCEPT !.errors = Append(@, LengthError(key, rule))]
       ELSE IF rule.pattern # "none" /\ ~PatternTest(rule.pattern, stringValue)
       THEN [acc EXCEPT !.errors = Append(@, PatternError(key, rule))]
       ELSE IF /\ rule.allowedValues # <<>>
               /\ ~(\E i \in 1..Len(rule.allowedValues) : rule.allowedValues[i] = stringValue)
       THEN [acc EXCEPT !.errors = Append(@, AllowedError(key, rule))]
       ELSE [acc EXCEPT !.normalizedParams = ObjSet(@, key, stringValue)]

\* CopyUnknown dropping the key
CopyUnknownDropped(acc, key, stringValue) == acc

\* CopyUnknown storing the value as the URI will carry it
CopyUnknownEncoded(acc, key, stringValue) ==
   [acc EXCEPT !.normalizedParams = ObjSet(@, key, FormEncode(stringValue))]

\* a key without a rule is copied, trimmed
CopyUnknown(acc, key, stringValue) ==
   [acc EXCEPT !.normalizedParams = ObjSet(@, key, stringValue)]

\* one iteration of the loop over Object.entries(params)
ValidateEntry(acc, entry) ==
   LET key == entry[1]
       value == entry[2]
       stringValue == Trim(value)
   IN  IF value = <<>> THEN acc
       ELSE IF stringValue = <<>> THEN acc
       ELSE IF key \in DOMAIN VALIDATION_RULES
            THEN CheckRule(acc, key, stringValue)
            ELSE CopyUnknown(acc, key, stringValue)

\* the loop over Object.entries(params)
RECURSIVE ValidateLoop(_, _)
ValidateLoop(acc, entries) ==
   IF entries = <<>> THEN acc
   ELSE ValidateLoop(ValidateEntry(acc, entries[1]), Tail(entries))

\* DefaultCurrency setting cu whether or not an amount was accepted
DefaultCurrencyAlways(normalizedParams) ==
   IF ~(Has(normalizedParams, cu) /\ Get(normalizedParams, cu) # <<>>)
   THEN ObjSet(normalizedParams, cu, INR)
   ELSE normalizedParams

\* DefaultCurrency without the default
DefaultCurrencyNever(normalizedParams) == normalizedParams

\* the default currency: set only if an amount was accepted and cu is unset
DefaultCurrency(normalizedParams) ==
   IF /\ Has(normalizedParams, am) /\ Get(normalizedParams, am) # <<>>
      /\ ~(Has(normalizedParams, cu) /\ Get(normalizedParams, cu) # <<>>)
   THEN ObjSet(normalizedParams, cu, INR)
   ELSE normalizedParams

\* IsValid tolerating one error
IsValidLenient(errors) == Len(errors) <= 1

\* isValid: errors.length === 0
IsValid(errors) == Len(errors) = 0

validateUpiParams(params) ==
   LET acc == ValidateLoop([errors |-> RequiredErrors(params), normalizedParams |-> <<>>],
                           params)
   IN  [isValid |-> IsValid(acc.errors),
        errors |-> acc.errors,
        normalizedParams |-> DefaultCurrency(acc.normalizedParams)]

(***************************************************************************)
(* Results of calls: a call returns a value or throws an Error.            *)
(***************************************************************************)
Returned(v) == [threw |-> FALSE, value |-> v]
Threw(msg) == [threw |-> TRUE, error |-> msg]
NotCalled == [called |-> FALSE]
Called(r) == [called |-> TRUE, result |-> r]

(***************************************************************************)
(* buildUpiUri                                                             *)
(***************************************************************************)
\* orderedKeys in the order of the rule table (sign before mc and tid)
orderedKeysTableOrder == <<pa, pn, am, cu, tr, tn, url, mode, orgid, sign, mc, tid>>

orderedKeys == <<pa, pn, am, cu, tr, tn, url, mode, orgid, mc, tid, sign>>
IsOrderedKey(k) == \E i \in 1..Len(orderedKeys) : orderedKeys[i] = k

\* the first loop: the ordered keys that have a non-empty value
OrderedPairs(normalizedParams) ==
   LET present == SelectSeq(orderedKeys,
                     LAMBDA k : Has(normalizedParams, k) /\ Get(normalizedParams, k) # <<>>)
   IN  [i \in 1..Len(present) |-> <<present[i], Get(normalizedParams, present[i])>>]

\* the second loop: every other entry, in the order of Object.entries
AdditionalPairs(normalizedParams) ==
   SelectSeq(normalizedParams, LAMBDA e : ~IsOrderedKey(e[1]) /\ e[2] # <<>>)

\* the pairs appended to queryParams, in order
QueryPairs(normalizedParams) ==
   OrderedPairs(normalizedParams) \o AdditionalPairs(normalizedParams)

\* `upi://${action}${queryString ? `?${queryString}` : ''}`
UpiUriOf(action, queryString) ==
   <<"u", "p", "i", ":", "/", "/">> \o action
      \o (IF queryString # <<>> THEN <<"?">> \o queryString ELSE <<>>)

\* `Invalid UPI parameters: ${validation.errors.join(', ')}`
InvalidParamsError(errors) == "Invalid UPI parameters: " \o Join(errors, ", ")

\* the steps after validation, reporting the first error only
BuildValidatedFirstError(validation, action) ==
   IF ~validation.isValid
   THEN Threw("Invalid UPI parameters: " \o validation.errors[1])
   ELSE Returned(UpiUriOf(action,
                    SearchParamsToString(QueryPairs(validation.normalizedParams))))

\* the steps of buildUpiUri after validateUpiParams(params)
BuildValidated(validation, action) ==
   IF ~validation.isValid
   THEN Threw(InvalidParamsError(validation.errors))
   ELSE Returned(UpiUriOf(action,
                    SearchParamsToString(QueryPairs(validation.normalizedParams))))

buildUpiUri(params, action) ==
   CHOOSE r \in {BuildValidated(v, action) : v \in {validateUpiParams(params)}} : TRUE

(***************************************************************************)
(* new URL(upiUri): the part of the URL parser that parseUpiUri reads.     *)
(***************************************************************************)
\* ASCII lowercase
LowerCase(s) ==
   [i \in 1..Len(s) |-> IF s[i] \in Upper THEN CharOfCode(CharCode(s[i]) + 32) ELSE s[i]]

\* leading and trailing C0 controls and spaces go, tabs and newlines go
UrlInput(s) == SelectSeq(Trim(s), LAMBDA c : c \notin {"\t", "\n", "\r"})

\* the position of the ":" that ends a valid scheme, 0 if there is none
SchemeEnd(s) ==
   LET colons == {i \in 1..Len(s) : s[i] = ":"}
   IN  IF colons = {} THEN 0
       ELSE LET i == Min(colons)
            IN  IF /\ i > 1
                   /\ s[1] \in Upper \cup Lower
                   /\ AllIn(s, 2, i - 1, Alnum \cup {"+", "-", "."})
                THEN i ELSE 0

\* the first position of s at or after from that holds a character of stop,
\* Len(s) + 1 if there is none
FirstOf(s, from, stop) ==
   LET hits == {i \in from..Len(s) : s[i] \in stop}
   IN  IF hits = {} THEN Len(s) + 1 ELSE Min(hits)

SpecialSchemes ==
   {<<"h", "t", "t", "p">>, <<"h", "t", "t", "p", "s">>, <<"f", "t", "p">>,
    <<"w", "s">>, <<"w", "s", "s">>, <<"f", "i", "l", "e">>}

\* code points a host may not contain
ForbiddenHost == {" ", "#", "/", ":", "<", ">", "?", "@", "[", "\\", "]", "^", "|"}

\* the query state percent-encodes these before the query is stored
RECURSIVE QueryEncode(_)
QueryEncode(q) ==
   IF q = <<>> THEN <<>>
   ELSE (IF q[1] \in {" ", "\"", "<", ">"}
         THEN <<"%", HexDigits[(CharCode(q[1]) \div 16) + 1],
                     HexDigits[(CharCode(q[1]) % 16) + 1]>>
         ELSE <<q[1]>>) \o QueryEncode(Tail(q))

\* protocol, hostname and search of new URL(input); ok is FALSE where the
\* constructor throws a TypeError
ParseUrl(input) ==
   LET s == UrlInput(input)
       e == SchemeEnd(s)
       scheme == LowerCase(SubSeq(s, 1, e - 1))
       hasAuthority == Len(s) >= e + 2 /\ s[e + 1] = "/" /\ s[e + 2] = "/"
       authStart == IF hasAuthority THEN e + 3 ELSE e + 1
       authEnd == IF hasAuthority THEN FirstOf(s, authStart, {"/", "?", "#"}) ELSE authStart
       authority == SubSeq(s, authStart, authEnd - 1)
       ats == {i \in 1..Len(authority) : authority[i] = "@"}
       hostport == IF ats = {} THEN authority
                   ELSE SubSeq(authority, Max(ats) + 1, Len(authority))
       portAt == FirstOf(hostport, 1, {":"})
       hostname == SubSeq(hostport, 1, portAt - 1)
       port == SubSeq(hostport, portAt + 1, Len(hostport))
       fragAt == FirstOf(s, authEnd, {"#"})
       queryAt == FirstOf(s, authEnd, {"?"})
       query == IF queryAt < fragAt THEN SubSeq(s, queryAt + 1, fragAt - 1) ELSE <<>>
   IN  IF e = 0 THEN [ok |-> FALSE]
       ELSE IF \/ \E i \in 1..Len(hostname) : hostname[i] \in ForbiddenHost
               \/ \E i \in 1..Len(port) : port[i] \notin Digit
               \/ scheme \in SpecialSchemes /\ hostname = <<>>
                     /\ scheme # <<"f", "i", "l", "e">>
       THEN [ok |-> FALSE]
       ELSE [ok |-> TRUE,
             protocol |-> scheme \o <<":">>,
             hostname |-> IF scheme \in SpecialSchemes THEN LowerCase(hostname) ELSE hostname,
             query |-> QueryEncode(query)]

(***************************************************************************)
(* parseUpiUri                                                             *)
(***************************************************************************)
\* params[key] = value for every entry of url.searchParams
RECURSIVE AssignAll(_, _)
AssignAll(obj, pairs) ==
   IF pairs = <<>> THEN obj
   ELSE CHOOSE r \in {AssignAll(o, Tail(pairs)) : o \in {ObjSet(obj, pairs[1][1], pairs[1][2])}} : TRUE

\* the steps of parseUpiUri after validateUpiParams(params)
ParseValidated(action, validation) ==
   IF ~validation.isValid
   THEN Threw(InvalidParamsError(validation.errors))
   ELSE Returned([action |-> action, params |-> validation.normalizedParams])

\* the action checked before the scheme
ParseStepsActionFirst(parsedUrl) ==
   IF ~parsedUrl.ok THEN Threw("Invalid URL")
   ELSE IF parsedUrl.hostname \notin UpiAction
   THEN Threw("Invalid UPI action: must be \"pay\" or \"mandate\"")
   ELSE IF parsedUrl.protocol # <<"u", "p", "i", ":">>
   THEN Threw("Invalid UPI URI: must start with upi://")
   ELSE CHOOSE r \in {ParseValidated(parsedUrl.hostname, v) :
                         v \in {validateUpiParams(AssignAll(<<>>,
                                   SearchParamsEntries(parsedUrl.query)))}} : TRUE

\* the decoded parameters returned as they were decoded
ParseStepsRaw(parsedUrl) ==
   IF ~parsedUrl.ok THEN Threw("Invalid URL")
   ELSE IF parsedUrl.protocol # <<"u", "p", "i", ":">>
   THEN Threw("Invalid UPI URI: must start with upi://")
   ELSE IF parsedUrl.hostname \notin UpiAction
   THEN Threw("Invalid UPI action: must be \"pay\" or \"mandate\"")
   ELSE CHOOSE r \in {IF ~validateUpiParams(d).isValid
                      THEN Threw(InvalidParamsError(validateUpiParams(d).errors))
                      ELSE Returned([action |-> parsedUrl.hostname, params |-> d]) :
                         d \in {AssignAll(<<>>, SearchParamsEntries(parsedUrl.query))}} : TRUE

\* the steps of parseUpiUri after new URL(upiUri)
ParseSteps(parsedUrl) ==
   IF ~parsedUrl.ok THEN Threw("Invalid URL")
   ELSE IF parsedUrl.protocol # <<"u", "p", "i", ":">>
   THEN Threw("Invalid UPI URI: must start with upi://")
   ELSE IF parsedUrl.hostname \notin UpiAction
   THEN Threw("Invalid UPI action: must be \"pay\" or \"mandate\"")
   ELSE CHOOSE r \in {ParseValidated(parsedUrl.hostname, v) :
                         v \in {validateUpiParams(AssignAll(<<>>,
                                   SearchParamsEntries(parsedUrl.query)))}} : TRUE

parseUpiUri(upiUri) == CHOOSE r \in {ParseSteps(u) : u \in {ParseUrl(upiUri)}} : TRUE

(***************************************************************************)
(* Optional values: a property that may be undefined.                      *)
(***************************************************************************)
Undefined == [defined |-> FALSE]
Some(v) == [defined |-> TRUE, value |-> v]
\* a string converts to true unless it is undefined or empty
Truthy(o) == o.defined /\ o.value # <<>>
\* a || b
OrElse(a, b) == IF Truthy(a) THEN a ELSE b
\* a destructuring default: d where the property is undefined
Default(o, d) == IF o.defined THEN o.value ELSE d

(***************************************************************************)
(* The app registry (src/data/apps.json is data; the entries below are the *)
(* ones that the tests and the README describe: package identifiers,       *)
(* verification status, the Google Pay label and iOS template, the store   *)
(* URLs.  Where those are silent the entries take the shapes that UpiApp   *)
(* allows: stores without a Play entry, no stores, an empty template.)     *)
(* Only the properties that the link builder reads are kept.               *)
(***************************************************************************)
generic == <<"g", "e", "n", "e", "r", "i", "c">>
gpay == <<"g", "p", "a", "y">>
phonepe == <<"p", "h", "o", "n", "e", "p", "e">>
paytm == <<"p", "a", "y", "t", "m">>
bhim == <<"b", "h", "i", "m">>
amazonpay == <<"a", "m", "a", "z", "o", "n", "p", "a", "y">>

appsData ==
   <<[id |-> gpay,
       label |-> "Google Pay",
       androidPackage |-> Some(
         <<"c", "o", "m", ".", "g", "o", "o", "g", "l", "e", ".", "a", "n", "d", "r", "o",
         "i", "d", ".", "a", "p", "p", "s", ".", "n", "b", "u", ".", "p", "a", "i", "s",
         "a", ".", "u", "s", "e", "r">>),
       ios |-> [pay |-> <<"g", "p", "a", "y", ":", "/", "/", "u", "p", "i", "/", "p", "a", "y",
                  "?", "{", "q", "u", "e", "r", "y", "}">>,
               mandate |-> <<"g", "p", "a", "y", ":", "/", "/", "u", "p", "i", "/", "m", "a", "n",
                  "d", "a", "t", "e", "?", "{", "q", "u", "e", "r", "y", "}">>],
       stores |-> Some(
         [play |-> Some(
            <<"h", "t", "t", "p", "s", ":", "/", "/", "p", "l", "a", "y", ".", "g", "o",
            "o", "g", "l", "e", ".", "c", "o", "m", "/", "s", "t", "o", "r", "e", "/", "a",
            "p", "p", "s", "/", "d", "e", "t", "a", "i", "l", "s", "?", "i", "d", "=", "c",
            "o", "m", ".", "g", "o", "o", "g", "l", "e", ".", "a", "n", "d", "r", "o", "i",
            "d", ".", "a", "p", "p", "s", ".", "n", "b", "u", ".", "p", "a", "i", "s", "a",
            ".", "u", "s", "e", "r">>),
          app |-> Some(
            <<"h", "t", "t", "p", "s", ":", "/", "/", "a", "p", "p", "s", ".", "a", "p",
            "p", "l", "e", ".", "c", "o", "m", "/", "i", "n", "/", "a", "p", "p", "/", "g",
            "o", "o", "g", "l", "e", "-", "p", "a", "y", "-", "s", "a", "v", "e", "-", "p",
            "a", "y", "-", "m", "a", "n", "a", "g", "e", "/", "i", "d", "1", "1", "9", "3",
            "3", "5", "7", "0", "4", "1">>)]),
       verification |-> [status |-> "verified"]],
      [id |-> phonepe,
       label |-> "PhonePe",
       androidPackage |-> Some(
         <<"c", "o", "m", ".", "p", "h", "o", "n", "e", "p", "e", ".", "a", "p", "p">>),
       ios |-> [pay |-> <<"p", "h", "o", "n", "e", "p", "e", ":", "/", "/", "p", "a", "y", "?",
                  "{", "q", "u", "e", "r", "y", "}">>,
               mandate |-> <<"p", "h", "o", "n", "e", "p", "e", ":", "/", "/", "m", "a", "n", "d",
                  "a", "t", "e", "?", "{", "q", "u", "e", "r", "y", "}">>],
       stores |-> Some(
         [play |-> Some(
            <<"h", "t", "t", "p", "s", ":", "/", "/", "p", "l", "a", "y", ".", "g", "o",
            "o", "g", "l", "e", ".", "c", "o", "m", "/", "s", "t", "o", "r", "e", "/", "a",
            "p", "p", "s", "/", "d", "e", "t", "a", "i", "l", "s", "?", "i", "d", "=", "c",
            "o", "m", ".", "p", "h", "o", "n", "e", "p", "e", ".", "a", "p", "p">>),
          app |-> Some(
            <<"h", "t", "t", "p", "s", ":", "/", "/", "a", "p", "p", "s", ".", "a", "p",
            "p", "l", "e", ".", "c", "o", "m", "/", "i", "n", "/", "a", "p", "p", "/", "p",
            "h", "o", "n", "e", "p", "e", "-", "u", "p", "i", "-", "p", "a", "y", "m", "e",
            "n", "t", "s", "-", "r", "e", "c", "h", "a", "r", "g", "e", "/", "i", "d", "1",
            "1", "7", "0", "0", "5", "5", "8", "2", "1">>)]),
       verification |-> [status |-> "community-observed"]],
      [id |-> paytm,
       label |-> "Paytm",
       androidPackage |-> Some(
         <<"n", "e", "t", ".", "o", "n", "e", "9", "7", ".", "p", "a", "y", "t", "m">>),
       ios |-> [pay |-> <<"p", "a", "y", "t", "m", "m", "p", ":", "/", "/", "p", "a", "y", "?",
                  "{", "q", "u", "e", "r", "y", "}">>,
               mandate |-> <<>>],
       stores |-> Some(
         [play |-> Some(
            <<"h", "t", "t", "p", "s", ":", "/", "/", "p", "l", "a", "y", ".", "g", "o",
            "o", "g", "l", "e", ".", "c", "o", "m", "/", "s", "t", "o", "r", "e", "/", "a",
            "p", "p", "s", "/", "d", "e", "t", "a", "i", "l", "s", "?", "i", "d", "=", "n",
            "e", "t", ".", "o", "n", "e", "9", "7", ".", "p", "a", "y", "t", "m">>),
          app |-> Some(
            <<"h", "t", "t", "p", "s", ":", "/", "/", "a", "p", "p", "s", ".", "a", "p",
            "p", "l", "e", ".", "c", "o", "m", "/", "i", "n", "/", "a", "p", "p", "/", "p",
            "a", "y", "t", "m", "-", "s", "e", "c", "u", "r", "e", "-", "u", "p", "i", "-",
            "p", "a", "y", "m", "e", "n", "t", "s", "/", "i", "d", "4", "7", "3", "9", "4",
            "1", "6", "3", "4">>)]),
       verification |-> [status |-> "community-observed"]],
      [id |-> bhim,
       label |-> "BHIM",
       androidPackage |-> Some(
         <<"i", "n", ".", "o", "r", "g", ".", "n", "p", "c", "i", ".", "u", "p", "i", "a",
         "p", "p">>),
       ios |-> [pay |-> <<"b", "h", "i", "m", ":", "/", "/", "u", "p", "i", "/", "p", "a", "y",
                  "?", "{", "q", "u", "e", "r", "y", "}">>,
               mandate |-> <<"b", "h", "i", "m", ":", "/", "/", "u", "p", "i", "/", "m", "a", "n",
                  "d", "a", "t", "e", "?", "{", "q", "u", "e", "r", "y", "}">>],
       stores |-> Some(
         [play |-> Undefined,
          app |-> Some(
            <<"h", "t", "t", "p", "s", ":", "/", "/", "a", "p", "p", "s", ".", "a", "p",
            "p", "l", "e", ".", "c", "o", "m", "/", "i", "n", "/", "a", "p", "p", "/", "b",
            "h", "i", "m">>)]),
       verification |-> [status |-> "verified"]],
      [id |-> amazonpay,
       label |-> "Amazon Pay",
       androidPackage |-> Some(
         <<"i", "n", ".", "a", "m", "a", "z", "o", "n", ".", "m", "S", "h", "o", "p", ".",
         "a", "n", "d", "r", "o", "i", "d", ".", "s", "h", "o", "p", "p", "i", "n", "g">>),
       ios |-> [pay |-> <<>>,
               mandate |-> <<>>],
       stores |-> Undefined,
       verification |-> [status |-> "community-observed"]],
      [id |-> generic,
       label |-> "Generic UPI",
       androidPackage |-> Undefined,
       ios |-> [pay |-> <<"u", "p", "i", ":", "/", "/", "p", "a", "y", "?", "{", "q", "u", "e",
                  "r", "y", "}">>,
               mandate |-> <<"u", "p", "i", ":", "/", "/", "m", "a", "n", "d", "a", "t", "e", "?",
                  "{", "q", "u", "e", "r", "y", "}">>],
       stores |-> Undefined,
       verification |-> [status |-> "verified"]]>>

(***************************************************************************)
(* The environment that the core reads: the registry loaded from apps.json *)
(* and the navigator global, where there is one.                           *)
(***************************************************************************)
VARIABLES
   registry,     \* the apps of the registry, as loaded
   navigator     \* the navigator global, undefined outside a browser

\* getAllApps().find(app => app.id === appId)
getApp(appId) ==
   LET found == {i \in 1..Len(registry) : registry[i].id = appId}
   IN  IF found = {} THEN Undefined ELSE Some(registry[Min(found)])

\* app[platform][action], for the platform ios
getAppLinkTemplate(appId, action) ==
   LET entry == getApp(appId)
   IN  IF ~entry.defined THEN Undefined
       ELSE Some(IF action = pay THEN entry.value.ios.pay ELSE entry.value.ios.mandate)

getStoreUrl(appId, platform) ==
   LET entry == getApp(appId)
   IN  IF ~entry.defined THEN Undefined
       ELSE IF ~entry.value.stores.defined THEN Undefined
       ELSE IF platform = "android" THEN entry.value.stores.value.play
       ELSE entry.value.stores.value.app

(***************************************************************************)
(* encodeURIComponent and String.prototype.replace                         *)
(***************************************************************************)
\* the characters that encodeURIComponent leaves as they are
UriUnreserved == Alnum \cup {"-", "_", ".", "!", "~", "*", "'", "(", ")"}

RECURSIVE encodeURIComponent(_)
encodeURIComponent(s) ==
   IF s = <<>> THEN <<>>
   ELSE (IF s[1] \in UriUnreserved THEN <<s[1]>>
         ELSE <<"%", HexDigits[(CharCode(s[1]) \div 16) + 1],
                     HexDigits[(CharCode(s[1]) % 16) + 1]>>)
           \o encodeURIComponent(Tail(s))

\* the replacement text of replace(pattern, replacement) for a match at
\* position at of s: $$ is a dollar sign, $& the match, $` the text before
\* the match, $' the text after it
RECURSIVE Substitution(_, _, _, _)
Substitution(s, pattern, at, replacement) ==
   IF replacement = <<>> THEN <<>>
   ELSE IF replacement[1] = "$" /\ Len(replacement) > 1
                                /\ replacement[2] \in {"$", "&", "U+0060", "'"}
   THEN (CASE replacement[2] = "$" -> <<"$">>
           [] replacement[2] = "&" -> pattern
           [] replacement[2] = "U+0060" -> SubSeq(s, 1, at - 1)
           [] replacement[2] = "'" -> SubSeq(s, at + Len(pattern), Len(s)))
           \o Substitution(s, pattern, at, SubSeq(replacement, 3, Len(replacement)))
   ELSE <<replacement[1]>> \o Substitution(s, pattern, at, Tail(replacement))

\* s.replace(pattern, replacement) with a string pattern: the first
\* occurrence only
Replace(s, pattern, replacement) ==
   LET found == {i \in 1..(Len(s) - Len(pattern) + 1) :
                    SubSeq(s, i, i + Len(pattern) - 1) = pattern}
       at == IF found = {} THEN 0 ELSE Min(found)
   IN  IF at = 0 THEN s
       ELSE SubSeq(s, 1, at - 1) \o Substitution(s, pattern, at, replacement)
               \o SubSeq(s, at + Len(pattern), Len(s))

(***************************************************************************)
(* buildAppLink                                                            *)
(***************************************************************************)
upiScheme == <<"u", "p", "i", ":", "/", "/">>
intentScheme == <<"i", "n", "t", "e", "n", "t", ":", "/", "/">>
intentHead == <<"#", "I", "n", "t", "e", "n", "t", ";", "s", "c", "h", "e", "m", "e",
                "=", "u", "p", "i", ";", "p", "a", "c", "k", "a", "g", "e", "=">>
fallbackHead == <<";", "S", ".", "b", "r", "o", "w", "s", "e", "r", "_", "f", "a", "l",
                  "l", "b", "a", "c", "k", "_", "u", "r", "l", "=">>
intentEnd == <<";", "e", "n", "d">>
queryPlaceholder == <<"{", "q", "u", "e", "r", "y", "}">>

\* the fallback segment appended whether or not a fallback URL was passed
buildAndroidIntentUrlAlwaysFallback(appId, upiQuery, action, fallbackUrl) ==
   LET entry == getApp(appId)
   IN  IF ~entry.defined \/ ~Truthy(entry.value.androidPackage)
       THEN upiScheme \o action \o <<"?">> \o upiQuery
       ELSE intentScheme \o action \o <<"?">> \o upiQuery \o intentHead
               \o entry.value.androidPackage.value
               \o fallbackHead \o encodeURIComponent(Default(fallbackUrl, <<>>))
               \o intentEnd

\* the fallback URL appended as it is
buildAndroidIntentUrlRawFallback(appId, upiQuery, action, fallbackUrl) ==
   LET entry == getApp(appId)
   IN  IF ~entry.defined \/ ~Truthy(entry.value.androidPackage)
       THEN upiScheme \o action \o <<"?">> \o upiQuery
       ELSE intentScheme \o action \o <<"?">> \o upiQuery \o intentHead
               \o entry.value.androidPackage.value
               \o (IF Truthy(fallbackUrl) THEN fallbackHead \o fallbackUrl.value ELSE <<>>)
               \o intentEnd

buildAndroidIntentUrl(appId, upiQuery, action, fallbackUrl) ==
   LET entry == getApp(appId)
   IN  IF ~entry.defined \/ ~Truthy(entry.value.androidPackage)
       THEN upiScheme \o action \o <<"?">> \o upiQuery
       ELSE intentScheme \o action \o <<"?">> \o upiQuery \o intentHead
               \o entry.value.androidPackage.value
               \o (IF Truthy(fallbackUrl)
                   THEN fallbackHead \o encodeURIComponent(fallbackUrl.value)
                   ELSE <<>>)
               \o intentEnd

\* the query appended to the template, the placeholder left in place
buildIosSchemeUrlAppended(appId, upiQuery, action) ==
   LET template == getAppLinkTemplate(appId, action)
   IN  IF ~Truthy(template) THEN upiScheme \o action \o <<"?">> \o upiQuery
       ELSE template.value \o upiQuery

buildIosSchemeUrl(appId, upiQuery, action) ==
   LET template == getAppLinkTemplate(appId, action)
   IN  IF ~Truthy(template) THEN upiScheme \o action \o <<"?">> \o upiQuery
       ELSE Replace(template.value, queryPlaceholder, upiQuery)

\* the entries of parsed.params that are appended to the URLSearchParams
AppendedPairs(parsedParams) == SelectSeq(parsedParams, LAMBDA entry : entry[2] # <<>>)

\* the steps of extractQueryFromUri after parseUpiUri(upiUri)
ExtractParsed(parsedUri) ==
   IF parsedUri.threw THEN Threw("Invalid UPI URI: " \o parsedUri.error)
   ELSE Returned(SearchParamsToString(AppendedPairs(parsedUri.value.params)))

extractQueryFromUri(upiUri) ==
   CHOOSE r \in {ExtractParsed(p) : p \in {parseUpiUri(upiUri)}} : TRUE

\* the fallback resolved whatever includeFallback is
AndroidFallbackAlways(options, includeFallback) ==
   OrElse(options.fallbackUrl, getStoreUrl(options.appId, "android"))

\* the fallback of the android branch
AndroidFallback(options, includeFallback) ==
   IF includeFallback THEN OrElse(options.fallbackUrl, getStoreUrl(options.appId, "android"))
   ELSE Undefined

\* the fallback resolved only if includeFallback, as on android
IosFallbackIfIncluded(options) ==
   IF Default(options.includeFallback, TRUE)
   THEN OrElse(options.fallbackUrl, getStoreUrl(options.appId, "ios"))
   ELSE Undefined

\* the fallback of the ios branch
IosFallback(options) == OrElse(options.fallbackUrl, getStoreUrl(options.appId, "ios"))

\* every app reported as verified
GeneratedLinkAllVerified(options, entry, action, linkUrl, resolvedFallbackUrl) ==
   [url |-> linkUrl,
    fallbackUrl |-> resolvedFallbackUrl,
    app |-> [id |-> options.appId, label |-> entry.label, verified |-> TRUE],
    platform |-> options.platform,
    action |-> action]

\* the GeneratedLink that buildAppLink returns
GeneratedLink(options, entry, action, linkUrl, resolvedFallbackUrl) ==
   [url |-> linkUrl,
    fallbackUrl |-> resolvedFallbackUrl,
    app |-> [id |-> options.appId,
             label |-> entry.label,
             verified |-> entry.verification.status = "verified"],
    platform |-> options.platform,
    action |-> action]

\* the steps of buildAppLink after extractQueryFromUri(baseUri)
LinkExtracted(options, entry, action, includeFallback, upiQuery) ==
   IF upiQuery.threw THEN upiQuery
   ELSE IF options.platform = "android"
   THEN Returned(GeneratedLink(options, entry, action,
                    buildAndroidIntentUrl(options.appId, upiQuery.value, action,
                                          AndroidFallback(options, includeFallback)),
                    AndroidFallback(options, includeFallback)))
   ELSE Returned(GeneratedLink(options, entry, action,
                    buildIosSchemeUrl(options.appId, upiQuery.value, action),
                    IosFallback(options)))

\* the steps of buildAppLink once the base URI is known
LinkBased(options, entry, action, includeFallback, baseUri) ==
   IF baseUri.threw THEN baseUri
   ELSE CHOOSE r \in {LinkExtracted(options, entry, action, includeFallback, q) :
                         q \in {extractQueryFromUri(baseUri.value)}} : TRUE

\* the base URI built from upiParams wherever they are given
BaseUriParamsFirst(options, action) ==
   IF options.upiParams.defined THEN buildUpiUri(options.upiParams.value, action)
   ELSE Returned(options.upiUri.value)

\* the base URI: upiUri as it is, else the URI built from upiParams
BaseUri(options, action) ==
   IF Truthy(options.upiUri) THEN Returned(options.upiUri.value)
   ELSE buildUpiUri(options.upiParams.value, action)

\* the app looked up before the arguments are checked
buildAppLinkLookupFirst(options) ==
   LET action == Default(options.action, pay)
       includeFallback == Default(options.includeFallback, TRUE)
       entry == getApp(options.appId)
   IN  IF ~entry.defined THEN Threw("Unknown app ID: " \o Str(options.appId))
       ELSE IF ~Truthy(options.upiUri) /\ ~options.upiParams.defined
       THEN Threw("Either upiUri or upiParams must be provided")
       ELSE CHOOSE r \in {LinkBased(options, entry.value, action, includeFallback, b) :
                             b \in {BaseUri(options, action)}} : TRUE

buildAppLink(options) ==
   LET action == Default(options.action, pay)
       includeFallback == Default(options.includeFallback, TRUE)
       entry == getApp(options.appId)
   IN  IF ~Truthy(options.upiUri) /\ ~options.upiParams.defined
       THEN Threw("Either upiUri or upiParams must be provided")
       ELSE IF ~entry.defined THEN Threw("Unknown app ID: " \o Str(options.appId))
       ELSE CHOOSE r \in {LinkBased(options, entry.value, action, includeFallback, b) :
                             b \in {BaseUri(options, action)}} : TRUE

(***************************************************************************)
(* Platform detection, link strategy, links for several apps               *)
(***************************************************************************)
\* /a|b|c/.test(s): one of the alternatives occurs in s
RegExpTest(alternatives, s) ==
   \E alt \in alternatives :
      \E i \in 1..(Len(s) - Len(alt) + 1) : SubSeq(s, i, i + Len(alt) - 1) = alt

\* the user agent tested as it is written
detectPlatformCaseSensitive ==
   IF ~navigator.defined THEN "android"
   ELSE IF RegExpTest({<<"i", "p", "h", "o", "n", "e">>, <<"i", "p", "a", "d">>,
                       <<"i", "p", "o", "d">>},
                      navigator.value.userAgent)
   THEN "ios"
   ELSE "android"

detectPlatform ==
   IF ~navigator.defined THEN "android"
   ELSE IF RegExpTest({<<"i", "p", "h", "o", "n", "e">>, <<"i", "p", "a", "d">>,
                       <<"i", "p", "o", "d">>},
                      LowerCase(navigator.value.userAgent))
   THEN "ios"
   ELSE "android"

supportsIntentUrls ==
   IF ~navigator.defined THEN FALSE
   ELSE /\ RegExpTest({<<"a", "n", "d", "r", "o", "i", "d">>},
                      LowerCase(navigator.value.userAgent))
        /\ \/ RegExpTest({<<"c", "h", "r", "o", "m", "e">>,
                          <<"c", "h", "r", "o", "m", "i", "u", "m">>},
                         LowerCase(navigator.value.userAgent))
           \/ RegExpTest({<<"c", "r", "i", "o", "s">>},
                         LowerCase(navigator.value.userAgent))

\* intent recommended wherever intent URLs are supported, whatever the platform
getBestLinkStrategyIntentFirst ==
   [platform |-> detectPlatform,
    supportsIntent |-> supportsIntentUrls,
    recommendation |->
       IF supportsIntentUrls THEN "intent"
       ELSE IF detectPlatform = "ios" THEN "scheme"
       ELSE "generic"]

getBestLinkStrategy ==
   [platform |-> detectPlatform,
    supportsIntent |-> supportsIntentUrls,
    recommendation |->
       IF detectPlatform = "android" /\ supportsIntentUrls THEN "intent"
       ELSE IF detectPlatform = "ios" THEN "scheme"
       ELSE "generic"]

\* appIds.map(appId => buildAppLink({appId, upiUri, platform, action})): the
\* links of the apps before this one in done, the link of this one in first
RECURSIVE MapAppLinks(_, _, _, _, _)
MapAppLink(done, first, upiUri, rest, targetPlatform, action) ==
   IF first.threw THEN first
   ELSE MapAppLinks(Append(done, first.value), upiUri, rest, targetPlatform, action)

MapAppLinks(done, upiUri, appIds, targetPlatform, action) ==
   IF appIds = <<>> THEN Returned(done)
   ELSE CHOOSE r \in {MapAppLink(done, first, upiUri, Tail(appIds), targetPlatform, action) :
                         first \in {buildAppLink(
                            [appId |-> Head(appIds), upiUri |-> Some(upiUri),
                             upiParams |-> Undefined, platform |-> targetPlatform,
                             action |-> Some(action), fallbackUrl |-> Undefined,
                             includeFallback |-> Undefined])}} : TRUE

\* a failing app left out of the list
buildMultipleAppLinksSkipFailed(upiUri, appIds, platform, action) ==
   LET targetPlatform == IF platform.defined THEN platform.value ELSE detectPlatform
       made == [i \in 1..Len(appIds) |->
                  buildAppLink([appId |-> appIds[i], upiUri |-> Some(upiUri),
                                upiParams |-> Undefined, platform |-> targetPlatform,
                                action |-> Some(Default(action, pay)),
                                fallbackUrl |-> Undefined, includeFallback |-> Undefined])]
       kept == SelectSeq(made, LAMBDA m : ~m.threw)
   IN  Returned([i \in 1..Len(kept) |-> kept[i].value])

buildMultipleAppLinks(upiUri, appIds, platform, action) ==
   MapAppLinks(<<>>, upiUri, appIds,
               IF platform.defined THEN platform.value ELSE detectPlatform,
               Default(action, pay))

(***************************************************************************)
(* createPaymentUri                                                        *)
(***************************************************************************)
\* cu put only where an amount is given
createPaymentUriCurrencyWithAmount(payeeAddress, payeeName, amount, note) ==
   buildUpiUri(<<<<pa, payeeAddress>>, <<pn, payeeName>>>>
                  \o (IF Truthy(amount) THEN <<<<cu, INR>>, <<am, amount.value>>>> ELSE <<>>)
                  \o (IF Truthy(note) THEN <<<<tn, note.value>>>> ELSE <<>>),
               pay)

createPaymentUri(payeeAddress, payeeName, amount, note) ==
   buildUpiUri(<<<<pa, payeeAddress>>, <<pn, payeeName>>, <<cu, INR>>>>
                  \o (IF Truthy(amount) THEN <<<<am, amount.value>>>> ELSE <<>>)
                  \o (IF Truthy(note) THEN <<<<tn, note.value>>>> ELSE <<>>),
               pay)

(***************************************************************************)
(* The parameter sets a caller passes.                                     *)
(***************************************************************************)
\* characters of the enumerated free-text values: a letter, white space and
\* the characters that the query syntax and its encoding give a meaning
TextAlphabet == {"a", " ", "&", "=", "+", "%", "@", "#", "?"}

RECURSIVE StringsUpTo(_)
StringsUpTo(n) ==
   IF n = 0 THEN {<<>>}
   ELSE LET shorter == StringsUpTo(n - 1)
        IN  shorter \cup {Append(t, c) : t \in shorter, c \in TextAlphabet}
FreeText == StringsUpTo(MaxLen)

\* keys without a rule
customField == <<"c", "u", "s", "t", "o", "m", "F", "i", "e", "l", "d">>
note == <<"n", "o", "t", "e">>

validPa == <<"a", "@", "b">>
validPn == <<"N", " ", "n">>

\* values of the fields, chosen to take every branch of the checks: empty,
\* blank, accepted, accepted after trimming, failing the pattern, one
\* character too long, exactly as long as allowed
PaValues == {<<>>, <<" ">>, validPa, <<" ">> \o validPa \o <<" ">>, <<"a", "b">>,
             Rep("a", 256)}
PnValues == {<<" ">>, validPn, <<" ">> \o validPn \o <<" ">>, Rep("n", 100)}
AmValues == {<<>>, <<"1", "0">>, <<"1", ".", "5">>, <<"1", ".">>, <<" ", "1", " ">>,
             Rep("1", 18), Rep("1", 19), Rep("x", 19)}
CuValues == {INR, <<"U", "S", "D">>, <<" ">> \o INR}

ExtraValues(k) ==
   CASE k = tr -> {<<"T", "-", "1">>, <<"T", "@">>, Rep("@", 36)}
     [] k = tn -> {<<"a", " ", "&">>, Rep("a", 101)}
     [] k = url -> {<<"h", "t", "t", "p", ":", "/", "/", "a">>,
                    <<"h", "t", "t", "p", "s", ":", "/", "/">>}
     [] k = mode -> {<<"0", "4">>}
     [] k = orgid -> {Rep("9", 21)}
     [] k = sign -> {<<"s", "=">>, Rep("s", 501)}
     [] k = mc -> {<<"1", "2", "3", "4">>, <<"1", "2", "3">>, <<"1", "2", "3", "4", "5">>}
     [] k = tid -> {<<"t">>}
     [] k = customField -> {<<"v">>, <<" ", "v", " ">>, <<" ">>}
     [] k = note -> {<<"w">>}

\* the optional and unknown keys, in the order a caller writes them
ExtraKeys == <<tr, tn, url, mode, orgid, sign, mc, tid, customField, note>>

\* no entry, or one entry for key k with a value of vals
Opt(k, vals) == {<<>>} \cup {<<<<k, v>>>> : v \in vals}

\* up to n entries for the keys ExtraKeys[from..], one per key, in that order
RECURSIVE ExtraSeqs(_, _)
ExtraSeqs(from, n) ==
   IF n = 0 \/ from > Len(ExtraKeys) THEN {<<>>}
   ELSE ExtraSeqs(from + 1, n)
           \cup {<<<<ExtraKeys[from], v>>>> \o rest :
                    v \in ExtraValues(ExtraKeys[from]), rest \in ExtraSeqs(from + 1, n - 1)}

Reverse(s) == [i \in 1..Len(s) |-> s[Len(s) + 1 - i]]

\* every pa and pn, with or without an amount and an unknown key
RequiredInputs ==
   {a \o b \o c \o x : a \in Opt(pa, PaValues), b \in Opt(pn, PnValues),
                       c \in Opt(am, {<<"1", "0">>}), x \in Opt(customField, {<<"v">>})}
\* every am and cu, next to an accepted pa and pn
CurrencyInputs ==
   {<<<<pa, validPa>>, <<pn, validPn>>>> \o c \o d :
       c \in Opt(am, AmValues), d \in Opt(cu, CuValues)}
\* up to MaxExtra optional and unknown keys, next to an accepted pa, with or
\* without pn and an amount
ExtraInputs ==
   {<<<<pa, validPa>>>> \o b \o c \o x :
       b \in Opt(pn, {validPn}), c \in Opt(am, {<<"1", "0">>}),
       x \in ExtraSeqs(1, MaxExtra)}
\* every free text as a payee name, as the value of an unknown key and as
\* the name of one
TextInputs ==
   {<<<<pa, validPa>>, <<pn, t>>>> : t \in FreeText}
      \cup {<<<<pa, validPa>>, <<pn, validPn>>, <<customField, t>>>> : t \in FreeText}
      \cup {<<<<pa, validPa>>, <<pn, validPn>>, <<t, <<"v">>>>>> : t \in FreeText}

\* a caller writes the keys in this order or in the opposite one
Inputs ==
   LET written == RequiredInputs \cup CurrencyInputs \cup ExtraInputs \cup TextInputs
   IN  written \cup {Reverse(p) : p \in written}

(***************************************************************************)
(* The options a caller passes to buildAppLink.                            *)
(***************************************************************************)
\* the URIs a caller passes, each under a name that says what it is
Uris ==
   \* in the form that buildUpiUri writes
   [canonicalPay |->
       <<"u", "p", "i", ":", "/", "/", "p", "a", "y", "?", "p", "a", "=", "a", "%",
       "4", "0", "b", "&", "p", "n", "=", "N", "+", "n", "&", "a", "m", "=", "1", "0",
       "&", "c", "u", "=", "I", "N", "R">>,
    canonicalMandate |->
       <<"u", "p", "i", ":", "/", "/", "m", "a", "n", "d", "a", "t", "e", "?", "p",
       "a", "=", "a", "%", "4", "0", "b", "&", "p", "n", "=", "N", "+", "n", "&", "t",
       "r", "=", "T", "-", "1">>,
   \* a space written %20
    percentSpace |->
       <<"u", "p", "i", ":", "/", "/", "p", "a", "y", "?", "p", "a", "=", "a", "%",
       "4", "0", "b", "&", "p", "n", "=", "N", "%", "2", "0", "n">>,
   \* an amount and no currency, a raw @
    noCurrency |->
       <<"u", "p", "i", ":", "/", "/", "p", "a", "y", "?", "p", "a", "=", "a", "@",
       "b", "&", "p", "n", "=", "n", "&", "a", "m", "=", "1", ".", "5">>,
   \* a value to trim, an empty value, pn before pa, an unknown key
    untidy |->
       <<"u", "p", "i", ":", "/", "/", "p", "a", "y", "?", "p", "n", "=", "+", "n",
       "+", "&", "p", "a", "=", "a", "%", "4", "0", "b", "&", "t", "n", "=", "&", "p",
       "a", "c", "k", "a", "g", "e", "=", "x">>,
   \* the scheme in capitals
    upperScheme |->
       <<"U", "P", "I", ":", "/", "/", "p", "a", "y", "?", "p", "a", "=", "a", "%",
       "4", "0", "b", "&", "p", "n", "=", "n">>,
   \* the wrong scheme only
    http |->
       <<"h", "t", "t", "p", ":", "/", "/", "p", "a", "y", "?", "p", "a", "=", "a",
       "%", "4", "0", "b", "&", "p", "n", "=", "n">>,
   \* the wrong scheme, action and parameters
    httpBad |->
       <<"h", "t", "t", "p", ":", "/", "/", "r", "e", "f", "u", "n", "d", "?", "p",
       "a", "=", "b", "a", "d">>,
   \* the wrong action only
    refund |->
       <<"u", "p", "i", ":", "/", "/", "r", "e", "f", "u", "n", "d", "?", "p", "a",
       "=", "a", "%", "4", "0", "b", "&", "p", "n", "=", "n">>,
   \* the wrong action and parameters
    refundBad |->
       <<"u", "p", "i", ":", "/", "/", "r", "e", "f", "u", "n", "d", "?", "p", "a",
       "=", "b", "a", "d">>,
    upperAction |->
       <<"u", "p", "i", ":", "/", "/", "P", "A", "Y", "?", "p", "a", "=", "a", "%",
       "4", "0", "b", "&", "p", "n", "=", "n">>,
   \* no authority: the host is empty
    noAuthority |->
       <<"u", "p", "i", ":", "p", "a", "y", "?", "p", "a", "=", "a", "%", "4", "0",
       "b", "&", "p", "n", "=", "n">>,
   \* pn missing
    noPn |->
       <<"u", "p", "i", ":", "/", "/", "p", "a", "y", "?", "p", "a", "=", "a", "%",
       "4", "0", "b">>,
    badAmount |->
       <<"u", "p", "i", ":", "/", "/", "p", "a", "y", "?", "p", "a", "=", "a", "%",
       "4", "0", "b", "&", "p", "n", "=", "n", "&", "a", "m", "=", "1", ".", "2", "3",
       "4">>,
   \* an amount of one space
    blankAmount |->
       <<"u", "p", "i", ":", "/", "/", "p", "a", "y", "?", "p", "a", "=", "a", "%",
       "4", "0", "b", "&", "p", "n", "=", "n", "&", "a", "m", "=", "+">>,
    noQuery |->
       <<"u", "p", "i", ":", "/", "/", "p", "a", "y">>,
   \* the wrong scheme and no host: new URL throws
    httpNoHost |->
       <<"h", "t", "t", "p", ":", "/", "/", "?", "p", "a", "=", "a", "%", "4", "0",
       "b", "&", "p", "n", "=", "n">>,
   \* no scheme: new URL throws
    noScheme |->
       <<"p", "a", "y", "?", "p", "a", "=", "a", "%", "4", "0", "b", "&", "p", "n",
       "=", "n">>]

UriInputs == {Uris[name] : name \in DOMAIN Uris}

unknownApp == <<"u", "n", "k", "n", "o", "w", "n">>
AppIds == {generic, gpay, phonepe, paytm, bhim, amazonpay}
Platform == {"android", "ios"}
customFallback ==
   <<"h", "t", "t", "p", "s", ":", "/", "/", "e", "x", "a", "m", "p", "l", "e", ".",
   "c", "o", "m", "/", "f", "a", "l", "l", "b", "a", "c", "k", "?", "a", "=", "b", " ",
   "c">>

AppLinkOptions(appId, upiUri, upiParams, platform, action, fallbackUrl, includeFallback) ==
   [appId |-> appId, upiUri |-> upiUri, upiParams |-> upiParams, platform |-> platform,
    action |-> action, fallbackUrl |-> fallbackUrl, includeFallback |-> includeFallback]

\* a property left out, or present with a value of vals
Maybe(vals) == {Undefined} \cup {Some(v) : v \in vals}

validParams == <<<<pa, validPa>>, <<pn, validPn>>, <<am, <<"1", "0">>>>>>

OptionInputs ==
   \* every app id, known or not, with and without a URI and a parameter set
   {AppLinkOptions(a, u, p, f, Undefined, Undefined, Undefined) :
       a \in AppIds \cup {unknownApp},
       u \in Maybe({<<>>, Uris.canonicalPay, Uris.noPn}),
       p \in Maybe({validParams, <<>>}),
       f \in Platform}
   \* every URI, for an app without a package, one with a package and stores and
   \* one without a template, with and without the action argument
   \cup {AppLinkOptions(a, Some(u), Undefined, f, t, Undefined, Undefined) :
            a \in {generic, gpay, amazonpay}, u \in UriInputs, f \in Platform,
            t \in Maybe(UpiAction)}
   \* every app, with and without a fallback URL and includeFallback
   \cup {AppLinkOptions(a, Some(Uris.canonicalPay), Undefined, f, t, b, i) :
            a \in AppIds, f \in Platform, t \in Maybe({mandate}),
            b \in Maybe({<<>>, customFallback}), i \in Maybe(BOOLEAN)}
   \* every free text as a payee name and as the value of an unknown key
   \cup {AppLinkOptions(a, Undefined, Some(p), f, t, Undefined, Undefined) :
            a \in {generic, gpay}, f \in Platform, t \in Maybe({mandate}),
            p \in {<<<<pa, validPa>>, <<pn, x>>>> : x \in FreeText}
                     \cup {<<<<pa, validPa>>, <<pn, validPn>>, <<customField, x>>>> :
                              x \in FreeText}}

(***************************************************************************)
(* The user agents of a navigator: the words that the tests of the         *)
(* platform and of the intent support look for, in several cases, up to    *)
(* MaxTokens different ones in any order.                                  *)
(***************************************************************************)
MaxTokens == 3

Tokens ==
   {<<"i", "P", "h", "o", "n", "e">>, <<"I", "P", "A", "D">>, <<"i", "p", "o", "d">>,
    <<"A", "n", "d", "r", "o", "i", "d">>, <<"C", "h", "r", "o", "m", "e">>,
    <<"C", "H", "R", "O", "M", "I", "U", "M">>, <<"C", "r", "i", "O", "S">>}

RECURSIVE UserAgents(_)
UserAgents(n) ==
   IF n = 0 THEN {<<>>}
   ELSE LET shorter == UserAgents(n - 1)
        IN  shorter \cup {IF more[1] = <<>> THEN more[2] ELSE more[1] \o <<" ">> \o more[2] :
                             more \in {m \in shorter \X Tokens : ~RegExpTest({m[2]}, m[1])}}

Navigators == {Undefined} \cup {Some([userAgent |-> ua]) : ua \in UserAgents(MaxTokens)}

(***************************************************************************)
(* What a caller holds and the result of each call it has made.            *)
(***************************************************************************)
VARIABLES
   params,       \* the caller's parameter set
   validation,   \* the result of validateUpiParams(params), once called
   built,        \* the action and result of buildUpiUri(params, action), once called
   parsed,       \* the result of parseUpiUri, once called
   options,      \* the caller's options for buildAppLink
   link,         \* the result of buildAppLink(options), once called
   util          \* the latest call of a utility function: its name, arguments, result

vars == <<registry, navigator, params, validation, built, parsed, options, link, util>>

(***************************************************************************)
(* The calls of a caller on one parameter set.                             *)
(***************************************************************************)
Init ==
   /\ registry = appsData
   /\ navigator = Undefined
   /\ util = NotCalled
   /\ params \in Inputs
   /\ validation = NotCalled
   /\ built = NotCalled
   /\ parsed = NotCalled
   /\ options = Undefined
   /\ link = NotCalled

\* the parameter set normalized in place
ValidateInPlace ==
   /\ ~validation.called
   /\ validation' = Called(validateUpiParams(params))
   /\ params' = validateUpiParams(params).normalizedParams
   /\ UNCHANGED <<registry, navigator, util, built, parsed, options, link>>

Validate ==
   /\ ~validation.called
   /\ validation' = Called(validateUpiParams(params))
   /\ UNCHANGED <<registry, navigator, util, params, built, parsed, options, link>>

Build ==
   /\ ~built.called
   /\ \E a \in UpiAction :
         built' = [called |-> TRUE, action |-> a, result |-> buildUpiUri(params, a)]
   /\ UNCHANGED <<registry, navigator, util, params, validation, parsed, options, link>>

Parse ==
   /\ built.called
   /\ ~built.result.threw
   /\ ~parsed.called
   /\ parsed' = Called(parseUpiUri(built.result.value))
   /\ UNCHANGED <<registry, navigator, util, params, validation, built, options, link>>

Next == Validate \/ Build \/ Parse

Spec == Init /\ [][Next]_vars

(***************************************************************************)
(* The calls of a caller on one options object: parseUpiUri on the URI it  *)
(* holds, and buildAppLink.                                                *)
(***************************************************************************)
LinkInit ==
   /\ registry = appsData
   /\ navigator = Undefined
   /\ util = NotCalled
   /\ params = <<>>
   /\ validation = NotCalled
   /\ built = NotCalled
   /\ parsed = NotCalled
   /\ options \in OptionInputs
   /\ link = NotCalled

ParseSupplied ==
   /\ options.upiUri.defined
   /\ ~parsed.called
   /\ parsed' = Called(parseUpiUri(options.upiUri.value))
   /\ UNCHANGED <<registry, navigator, util, params, validation, built, options, link>>

Link ==
   /\ ~link.called
   /\ link' = Called(buildAppLink(options))
   /\ UNCHANGED <<registry, navigator, util, params, validation, built, parsed, options>>

LinkNext == ParseSupplied \/ Link

LinkSpec == LinkInit /\ [][LinkNext]_vars

(***************************************************************************)
(* One call of a utility function in an environment with or without a      *)
(* navigator.                                                              *)
(***************************************************************************)
EnvInit ==
   /\ registry = appsData
   /\ navigator \in Navigators
   /\ params = <<>>
   /\ validation = NotCalled
   /\ built = NotCalled
   /\ parsed = NotCalled
   /\ options = Undefined
   /\ link = NotCalled
   /\ util = NotCalled

DetectPlatform ==
   /\ ~util.called
   /\ util' = [called |-> TRUE, op |-> "detectPlatform", result |-> detectPlatform]
   /\ UNCHANGED <<registry, navigator, params, validation, built, parsed, options, link>>

SupportsIntentUrls ==
   /\ ~util.called
   /\ util' = [called |-> TRUE, op |-> "supportsIntentUrls", result |-> supportsIntentUrls]
   /\ UNCHANGED <<registry, navigator, params, validation, built, parsed, options, link>>

GetBestLinkStrategy ==
   /\ ~util.called
   /\ util' = [called |-> TRUE, op |-> "getBestLinkStrategy",
               result |-> getBestLinkStrategy]
   /\ UNCHANGED <<registry, navigator, params, validation, built, parsed, options, link>>

BuildMultipleAppLinks ==
   /\ ~util.called
   /\ \E upiUri \in {Uris.canonicalPay, Uris.noPn},
         appIds \in {<<>>, <<phonepe, generic>>, <<gpay, unknownApp, generic>>},
         platform \in Maybe(Platform),
         action \in Maybe({mandate}) :
         util' = [called |-> TRUE, op |-> "buildMultipleAppLinks",
                  upiUri |-> upiUri, appIds |-> appIds, platform |-> platform,
                  action |-> action,
                  result |-> buildMultipleAppLinks(upiUri, appIds, platform, action)]
   /\ UNCHANGED <<registry, navigator, params, validation, built, parsed, options, link>>

EnvNext == DetectPlatform \/ SupportsIntentUrls \/ GetBestLinkStrategy
              \/ BuildMultipleAppLinks

EnvSpec == EnvInit /\ [][EnvNext]_vars

(***************************************************************************)
(* One call of createPaymentUri.                                           *)
(***************************************************************************)
CreatePaymentUri ==
   /\ ~util.called
   /\ \E payeeAddress \in PaValues, payeeName \in PnValues \cup {<<>>},
         amount \in Maybe(AmValues),
         text \in Maybe({<<>>, <<" ">>, <<"a", " ", "&">>, <<" ", "a">>, Rep("a", 101)}) :
         util' = [called |-> TRUE, op |-> "createPaymentUri",
                  payeeAddress |-> payeeAddress, payeeName |-> payeeName,
                  amount |-> amount, note |-> text,
                  result |-> createPaymentUri(payeeAddress, payeeName, amount, text)]
   /\ UNCHANGED <<registry, navigator, params, validation, built, parsed, options, link>>

PaymentInit ==
   /\ registry = appsData
   /\ navigator = Undefined
   /\ params = <<>>
   /\ validation = NotCalled
   /\ built = NotCalled
   /\ parsed = NotCalled
   /\ options = Undefined
   /\ link = NotCalled
   /\ util = NotCalled

PaymentSpec == PaymentInit /\ [][CreatePaymentUri]_vars

(***************************************************************************)
(* The calls of a caller that holds a parameter set and an options object  *)
(* naming the same parameter set, made in any order.                       *)
(***************************************************************************)
CoreInit ==
   /\ registry = appsData
   /\ navigator = Undefined
   /\ params \in CurrencyInputs
   /\ validation = NotCalled
   /\ built = NotCalled
   /\ parsed = NotCalled
   /\ options \in {AppLinkOptions(appId, upiUri, upiParams, platform, Undefined, Undefined,
                                   Undefined) :
                      appId \in {gpay, generic, unknownApp},
                      upiUri \in Maybe({Uris.canonicalPay, Uris.noPn}),
                      upiParams \in {Undefined, Some(params)},
                      platform \in Platform}
   /\ link = NotCalled
   /\ util = NotCalled

CoreNext == Validate \/ Build \/ Parse \/ ParseSupplied \/ Link

CoreSpec == CoreInit /\ [][CoreNext]_vars

TypeOK ==
   /\ validation.called \in BOOLEAN
   /\ built.called \in BOOLEAN
   /\ parsed.called \in BOOLEAN
   /\ link.called \in BOOLEAN
   /\ util.called \in BOOLEAN

(***************************************************************************)
(* Vocabulary of the properties.  These definitions restate what the       *)
(* properties speak of without using the operators of validateUpiParams.   *)
(***************************************************************************)
Blank == {" ", "\t", "\n", "\r"}
RECURSIVE StripLeft(_)
StripLeft(s) == IF s # <<>> /\ s[1] \in Blank THEN StripLeft(Tail(s)) ELSE s
RECURSIVE StripRight(_)
StripRight(s) ==
   IF s # <<>> /\ s[Len(s)] \in Blank THEN StripRight(SubSeq(s, 1, Len(s) - 1)) ELSE s
\* s without its leading and trailing white space
Strip(s) == StripRight(StripLeft(s))
\* s is neither empty nor blank and has no white space at either end
IsTrimmed(s) == s # <<>> /\ s[1] \notin Blank /\ s[Len(s)] \notin Blank

\* the key is absent from the input, or its value is empty after trimming
AbsentOrBlank(p, k) == ~Has(p, k) \/ Strip(Get(p, k)) = <<>>

\* the first check that the trimmed value v fails for a key with a rule, in
\* the order length, pattern, allowed values; "none" if it passes them all
FirstFailure(k, v) ==
   LET rule == VALIDATION_RULES[k]
   IN  IF rule.maxLength # 0 /\ Len(v) > rule.maxLength THEN "length"
       ELSE IF rule.pattern # "none" /\ ~PatternTest(rule.pattern, v) THEN "pattern"
       ELSE IF rule.allowedValues # <<>> /\ v \notin {rule.allowedValues[i] :
                                                      i \in 1..Len(rule.allowedValues)}
       THEN "allowed"
       ELSE "none"

\* the messages that the checks of key k can append
KeyMessages(k) ==
   LET rule == VALIDATION_RULES[k]
   IN  {LengthError(k, rule), PatternError(k, rule), AllowedError(k, rule)}
\* the message of one failure
FailureMessage(k, failure) ==
   LET rule == VALIDATION_RULES[k]
   IN  CASE failure = "length" -> LengthError(k, rule)
         [] failure = "pattern" -> PatternError(k, rule)
         [] failure = "allowed" -> AllowedError(k, rule)
RequiredMessages == {"Payee Address (pa) is required", "Payee Name (pn) is required"}

\* how often the messages of msgs occur in errors
Occurrences(errs, msgs) == Cardinality({i \in 1..Len(errs) : errs[i] \in msgs})

\* the result of the Validate step
V == validation.result
\* the result of the Build step
B == built.result
\* the decoded names and values of the query of a URI, in order
QueryOf(uri) ==
   LET q == FirstOf(uri, 1, {"?"})
   IN  SearchParamsEntries(SubSeq(uri, q + 1, Len(uri)))
\* the position of key k in the object obj
IndexOf(obj, k) == CHOOSE i \in 1..Len(obj) : obj[i][1] = k

(***************************************************************************)
(* Properties.                                                             *)
(***************************************************************************)

\* C1: round trip.  For every parameter set that validates and every action,
\* parsing the URI that buildUpiUri returned succeeds, returns that action, and
\* returns params with the same keys and the same values as the normalizedParams
\* of validateUpiParams on the original parameter set.
C1_RoundTrip ==
   parsed.called =>
      /\ validateUpiParams(params).isValid
      /\ ~parsed.result.threw
      /\ parsed.result.value.action = built.action
      /\ Entries(parsed.result.value.params)
            = Entries(validateUpiParams(params).normalizedParams)
      /\ Len(parsed.result.value.params)
            = Len(validateUpiParams(params).normalizedParams)

\* a mandate URI was parsed whose unknown key carries "+" and "&", and whose
\* currency was defaulted
C1_Witness ==
   /\ parsed.called
   /\ ~parsed.result.threw
   /\ built.action = mandate
   /\ \E i \in 1..Len(params) : params[i] = <<customField, <<"+", "&">>>>
   /\ <<customField, <<"+", "&">>>> \in Entries(parsed.result.value.params)

\* C2 as stated: whenever am is set (non-empty) and cu is not set, the
\* normalizedParams have cu = "INR".
C2_AsStated ==
   (validation.called /\ Has(params, am) /\ Get(params, am) # <<>> /\ ~Has(params, cu))
      => <<cu, INR>> \in Entries(V.normalizedParams)

\* C2, amended: whenever am is set to a value that, trimmed, is non-empty and
\* passes the checks of am (so that am is in normalizedParams), and cu is not
\* set, the normalizedParams have cu = "INR".
C2_DefaultCurrency ==
   (/\ validation.called
    /\ Has(params, am)
    /\ Strip(Get(params, am)) # <<>>
    /\ FirstFailure(am, Strip(Get(params, am))) = "none"
    /\ ~Has(params, cu))
      => <<cu, INR>> \in Entries(V.normalizedParams)

\* an accepted am without cu was validated and cu = "INR" is in the result
C2_Witness ==
   /\ validation.called
   /\ Has(params, am) /\ ~Has(params, cu)
   /\ Has(V.normalizedParams, am)
   /\ <<cu, INR>> \in Entries(V.normalizedParams)

\* C3: the required-field checks do not short-circuit.  A pa that is absent or
\* empty after trim gives the error "Payee Address (pa) is required", a pn that
\* is absent or empty after trim gives "Payee Name (pn) is required", both are
\* given when both are missing (each once, pa first), and every other key of the
\* input is still checked: with a non-empty trimmed value it is copied to
\* normalizedParams if it has no rule or passes its rule, and it has its error
\* if it fails its rule.
C3_RequiredNoShortCircuit ==
   validation.called =>
      /\ \A k \in {pa, pn} :
            LET msg == IF k = pa THEN "Payee Address (pa) is required"
                       ELSE "Payee Name (pn) is required"
            IN  Occurrences(V.errors, {msg}) = IF AbsentOrBlank(params, k) THEN 1 ELSE 0
      /\ (AbsentOrBlank(params, pa) /\ AbsentOrBlank(params, pn))
            => /\ Len(V.errors) >= 2
               /\ V.errors[1] = "Payee Address (pa) is required"
               /\ V.errors[2] = "Payee Name (pn) is required"
      /\ \A i \in 1..Len(params) :
            LET k == params[i][1]
                v == Strip(params[i][2])
            IN  (v # <<>>) =>
                   IF k \notin RuleKeys \/ FirstFailure(k, v) = "none"
                   THEN <<k, v>> \in Entries(V.normalizedParams)
                   ELSE FailureMessage(k, FirstFailure(k, v)) \in
                           {V.errors[j] : j \in 1..Len(V.errors)}

\* pa and pn are both missing, and the amount and the unknown key of the same
\* input were still accepted
C3_Witness ==
   /\ validation.called
   /\ ~Has(params, pa) /\ Has(params, pn) /\ Get(params, pn) = <<" ">>
   /\ Len(V.errors) = 2
   /\ <<customField, <<"v">>>> \in Entries(V.normalizedParams)
   /\ <<am, <<"1", "0">>>> \in Entries(V.normalizedParams)

\* C4 as stated: for every key with a rule and a non-empty trimmed value, the
\* checks run in the order length, pattern, allowed values; the first failing
\* check appends exactly one error for the key and the key is absent from
\* normalizedParams; if all pass, the trimmed value is stored under the key.
C4_AsStated ==
   validation.called =>
      \A i \in 1..Len(params) :
         LET k == params[i][1]
             v == Strip(params[i][2])
         IN  (k \in RuleKeys /\ v # <<>>) =>
                IF FirstFailure(k, v) = "none"
                THEN /\ <<k, v>> \in Entries(V.normalizedParams)
                     /\ Occurrences(V.errors, KeyMessages(k)) = 0
                ELSE /\ Occurrences(V.errors, KeyMessages(k)) = 1
                     /\ Occurrences(V.errors, {FailureMessage(k, FirstFailure(k, v))}) = 1
                     /\ ~Has(V.normalizedParams, k)

\* C4, amended: as stated, except that a rejected value is not stored under its
\* key: every rejected key other than cu is absent from normalizedParams, and a
\* rejected cu is absent unless am was accepted, in which case cu is the
\* default "INR".
C4_FirstFailingCheck ==
   validation.called =>
      \A i \in 1..Len(params) :
         LET k == params[i][1]
             v == Strip(params[i][2])
         IN  (k \in RuleKeys /\ v # <<>>) =>
                IF FirstFailure(k, v) = "none"
                THEN /\ <<k, v>> \in Entries(V.normalizedParams)
                     /\ Occurrences(V.errors, KeyMessages(k)) = 0
                ELSE /\ Occurrences(V.errors, KeyMessages(k)) = 1
                     /\ Occurrences(V.errors, {FailureMessage(k, FirstFailure(k, v))}) = 1
                     /\ <<k, v>> \notin Entries(V.normalizedParams)
                     /\ (k # cu) => ~Has(V.normalizedParams, k)
                     /\ (k = cu) =>
                           /\ Has(V.normalizedParams, cu) <=> Has(V.normalizedParams, am)
                           /\ Has(V.normalizedParams, cu) => Get(V.normalizedParams, cu) = INR

\* a pa that is too long and does not match the pattern either was validated:
\* only the length error is reported and pa is not in the result
C4_Witness ==
   /\ validation.called
   /\ Has(params, pa)
   /\ Len(Get(params, pa)) > 255 /\ ~VpaPattern(Get(params, pa))
   /\ Occurrences(V.errors, {"pa: exceeds maximum length of 255 characters"}) = 1
   /\ Occurrences(V.errors, {"pa: invalid format. Valid VPA format (user@psp)"}) = 0
   /\ ~Has(V.normalizedParams, pa)

\* C5: a key that has no validation rule never produces an error; whenever its
\* trimmed value is non-empty, that trimmed value is under the same key in
\* normalizedParams, whatever the value and whatever the other keys.
C5_UnknownPassthrough ==
   validation.called =>
      /\ \A i \in 1..Len(params) :
            LET k == params[i][1]
                v == Strip(params[i][2])
            IN  (k \notin RuleKeys /\ v # <<>>) => <<k, v>> \in Entries(V.normalizedParams)
      /\ \A j \in 1..Len(V.errors) :
            V.errors[j] \in RequiredMessages \cup UNION {KeyMessages(k) : k \in RuleKeys}

\* an unknown key with white space around its value was validated next to a
\* missing pn: the result is invalid and holds the trimmed value
C5_Witness ==
   /\ validation.called
   /\ ~V.isValid
   /\ \E i \in 1..Len(params) : params[i] = <<customField, <<" ", "v", " ">>>>
   /\ <<customField, <<"v">>>> \in Entries(V.normalizedParams)

\* C6: validateUpiParams returns a result {isValid, errors, normalizedParams}
\* for every input; isValid is true if and only if errors is empty, and
\* normalizedParams is returned also when isValid is false.
C6_ResultShape ==
   validation.called =>
      /\ DOMAIN V = {"isValid", "errors", "normalizedParams"}
      /\ V.isValid \in BOOLEAN
      /\ V.isValid <=> (V.errors = <<>>)
      /\ \A i \in 1..Len(V.normalizedParams) : V.normalizedParams[i][1] \in Keys(params) \cup {cu}

\* an invalid input with exactly one error was validated, and the fields that
\* passed are in its normalizedParams
C6_Witness ==
   /\ validation.called
   /\ ~V.isValid
   /\ Len(V.errors) = 1
   /\ Len(V.normalizedParams) >= 2

\* C7: no value of normalizedParams is empty or blank, and none has leading or
\* trailing white space; an input value that is empty or blank is dropped
\* without an error (a dropped pa or pn counts as missing, which is the only
\* error it gives); and the length, pattern and allowed-value checks are applied
\* to the trimmed value.
C7_TrimmedValues ==
   validation.called =>
      /\ \A i \in 1..Len(V.normalizedParams) : IsTrimmed(V.normalizedParams[i][2])
      /\ \A i \in 1..Len(params) :
            LET k == params[i][1]
                v == params[i][2]
            IN  (Strip(v) = <<>>) =>
                   /\ <<k, v>> \notin Entries(V.normalizedParams)
                   /\ k \in RuleKeys => Occurrences(V.errors, KeyMessages(k)) = 0
      /\ Len(V.errors) =
            Cardinality({k \in {pa, pn} : AbsentOrBlank(params, k)})
               + Cardinality({i \in 1..Len(params) :
                                 /\ params[i][1] \in RuleKeys
                                 /\ Strip(params[i][2]) # <<>>
                                 /\ FirstFailure(params[i][1], Strip(params[i][2])) # "none"})
      /\ \A i \in 1..Len(params) :
            LET k == params[i][1]
                v == Strip(params[i][2])
            IN  (k \in RuleKeys /\ v # <<>>) =>
                   (FirstFailure(k, v) = "none" <=> <<k, v>> \in Entries(V.normalizedParams))

\* an amount with white space around it was validated and accepted trimmed
C7_Witness ==
   /\ validation.called
   /\ \E i \in 1..Len(params) : params[i] = <<am, <<" ", "1", " ">>>>
   /\ <<am, <<"1">>>> \in Entries(V.normalizedParams)
   /\ V.isValid

\* C8: buildUpiUri(p, a) throws exactly when validateUpiParams(p).isValid is
\* false; the error carries all error messages of validateUpiParams(p) joined
\* by ", " and no URI is returned; when isValid is true it returns a URI
\* (upi://<a>...) and does not throw.
C8_BuildFailsIffInvalid ==
   built.called =>
      LET v == validateUpiParams(params)
      IN  /\ B.threw <=> ~v.isValid
          /\ B.threw =>
                /\ B.error = "Invalid UPI parameters: " \o Join(v.errors, ", ")
                /\ DOMAIN B = {"threw", "error"}
          /\ ~B.threw =>
                /\ DOMAIN B = {"threw", "value"}
                /\ StartsWith(B.value, <<"u", "p", "i", ":", "/", "/">> \o built.action)

\* buildUpiUri was called on a parameter set with three or more errors and threw
C8_Witness ==
   /\ built.called
   /\ B.threw
   /\ Len(validateUpiParams(params).errors) >= 3

\* the canonical order of the recognized fields
CanonicalOrder == <<pa, pn, am, cu, tr, tn, url, mode, orgid, mc, tid, sign>>
Recognized(k) == \E i \in 1..Len(CanonicalOrder) : CanonicalOrder[i] = k
Rank(k) == CHOOSE i \in 1..Len(CanonicalOrder) : CanonicalOrder[i] = k

\* C9: in every URI returned by buildUpiUri the recognized fields that are
\* present come first, in the relative order pa, pn, am, cu, tr, tn, url, mode,
\* orgid, mc, tid, sign; every unrecognized key comes after all recognized
\* ones, in the iteration order of the normalized parameter set; each
\* normalized key appears exactly once, with its value, and no absent or empty
\* field is emitted.
C9_CanonicalOrder ==
   (built.called /\ ~B.threw) =>
      LET q == QueryOf(B.value)
          n == validateUpiParams(params).normalizedParams
      IN  /\ \A i, j \in 1..Len(q) :
                (i < j) =>
                   /\ Recognized(q[j][1]) => Recognized(q[i][1])
                   /\ (Recognized(q[i][1]) /\ Recognized(q[j][1]))
                         => Rank(q[i][1]) < Rank(q[j][1])
                   /\ (~Recognized(q[i][1]) /\ ~Recognized(q[j][1]))
                         => /\ Has(n, q[i][1]) /\ Has(n, q[j][1])
                            /\ IndexOf(n, q[i][1]) < IndexOf(n, q[j][1])
          /\ \A i \in 1..Len(n) :
                Cardinality({j \in 1..Len(q) : q[j][1] = n[i][1]}) = 1
          /\ \A j \in 1..Len(q) : q[j] \in Entries(n) /\ q[j][2] # <<>>

\* a URI was built from a parameter set written in the opposite order, with
\* two unknown keys (note before customField) and a defaulted currency
C9_Witness ==
   /\ built.called /\ ~B.threw
   /\ Has(params, customField) /\ Has(params, note) /\ Has(params, am)
   /\ IndexOf(params, note) < IndexOf(params, customField)
   /\ IndexOf(params, customField) < IndexOf(params, pa)
   /\ Len(QueryOf(B.value)) = 6

\* C10: for every valid parameter set that contains only pa and pn,
\* buildUpiUri(p, 'pay') is exactly upi://pay?pa=<enc(pa)>&pn=<enc(pn)>, where
\* enc is the form-urlencoding of the trimmed value: it has no cu and no other
\* field.  More generally a URI returned by buildUpiUri has cu only when am is
\* in the normalized set or cu was supplied.
C10_NoCurrencyWithoutAmount ==
   (built.called /\ ~B.threw) =>
      /\ (Keys(params) = {pa, pn} /\ built.action = pay) =>
            B.value = <<"u", "p", "i", ":", "/", "/", "p", "a", "y", "?", "p", "a", "=">>
                         \o FormEncode(Strip(Get(params, pa)))
                         \o <<"&", "p", "n", "=">>
                         \o FormEncode(Strip(Get(params, pn)))
      /\ (\E j \in 1..Len(QueryOf(B.value)) : QueryOf(B.value)[j][1] = cu) =>
            \/ Has(validateUpiParams(params).normalizedParams, am)
            \/ Has(params, cu)

\* a pay URI was built from a parameter set of pn and pa only, written pn first
\* and with white space around pa
C10_Witness ==
   /\ built.called /\ ~B.threw
   /\ built.action = pay
   /\ Keys(params) = {pa, pn}
   /\ params[1][1] = pn
   /\ Get(params, pa) # Strip(Get(params, pa))

(***************************************************************************)
(* Vocabulary of the properties of parseUpiUri and buildAppLink.           *)
(***************************************************************************)
\* the result of the ParseSupplied step and the URI it was called on
P == parsed.result
U == options.upiUri.value
\* the result of the Link step
L == link.result
\* the scheme of a URI: the text before its first ":", in lower case
SchemeOf(uri) ==
   LET colon == FirstOf(uri, 1, {":"})
   IN  IF colon > Len(uri) THEN <<>> ELSE LowerCase(SubSeq(uri, 1, colon - 1))
\* the host of a URI: the text between "://" and the first "/", "?" or "#"
HostOf(uri) ==
   LET colon == FirstOf(uri, 1, {":"})
   IN  IF SubSeq(uri, colon + 1, colon + 2) # <<"/", "/">> THEN <<>>
       ELSE SubSeq(uri, colon + 3, FirstOf(uri, colon + 3, {"/", "?", "#"}) - 1)
SchemeError == "Invalid UPI URI: must start with upi://"
ActionError == "Invalid UPI action: must be \"pay\" or \"mandate\""
upi == <<"u", "p", "i">>

\* C11 as stated: parseUpiUri fails unless the scheme is upi, the host is pay
\* or mandate and the decoded parameters validate, checked in this order; a
\* URI with a wrong scheme fails with the scheme error whatever its action
\* and parameters are (a string without a scheme just fails).
C11_AsStated ==
   parsed.called =>
      IF SchemeOf(U) = <<>> THEN P.threw
      ELSE IF SchemeOf(U) # upi THEN P.threw /\ P.error = SchemeError
      ELSE IF HostOf(U) \notin {pay, mandate} THEN P.threw /\ P.error = ActionError
      ELSE IF ~validateUpiParams(QueryOf(U)).isValid THEN P.threw
      ELSE ~P.threw

\* C11: a string that the URL parser rejects fails with the parser's error
\* "Invalid URL", before any of the three checks.  For a URI that the URL
\* parser accepts, parseUpiUri fails unless the scheme is upi, the host is pay
\* or mandate and the decoded parameters validate, checked in this order: a
\* wrong scheme fails with the scheme error whatever the action and the
\* parameters are, a wrong action with the action error whatever the
\* parameters are, and parameters that do not validate with the joined
\* validation errors.
C11_ChecksInOrder ==
   parsed.called =>
      IF ~ParseUrl(U).ok THEN P.threw /\ P.error = "Invalid URL"
      ELSE IF SchemeOf(U) # upi THEN P.threw /\ P.error = SchemeError
      ELSE IF HostOf(U) \notin {pay, mandate} THEN P.threw /\ P.error = ActionError
      ELSE IF ~validateUpiParams(QueryOf(U)).isValid
      THEN P.threw /\ P.error = InvalidParamsError(validateUpiParams(QueryOf(U)).errors)
      ELSE ~P.threw /\ P.value.action = HostOf(U)

\* a URI whose scheme, action and parameters are all wrong has failed with
\* the scheme error, and one with pn missing has been rejected
C11_Witness ==
   /\ parsed.called
   /\ \/ U = Uris.httpBad /\ P.threw /\ P.error = SchemeError
      \/ U = Uris.noPn /\ P.threw /\ P.error # SchemeError /\ P.error # ActionError

Supplied(o) == o.defined /\ o.value # <<>>
\* the registry has an entry for the app id; the entry
InRegistry(appId) == \E i \in 1..Len(appsData) : appsData[i].id = appId
RegistryEntry(appId) == appsData[CHOOSE i \in 1..Len(appsData) : appsData[i].id = appId]
ArgumentMissing == "Either upiUri or upiParams must be provided"

\* C13: buildAppLink fails with 'Either upiUri or upiParams must be provided'
\* whenever neither upiUri nor upiParams is supplied, whatever the appId is;
\* when one of them is supplied and appId is not in the registry it fails with
\* 'Unknown app ID: <appId>', whether or not the supplied URI or parameters
\* are valid.  No GeneratedLink is returned in either case.
C13_ArgumentAndAppErrors ==
   link.called =>
      IF ~Supplied(options.upiUri) /\ ~options.upiParams.defined
      THEN L.threw /\ L.error = ArgumentMissing
      ELSE ~InRegistry(options.appId) =>
              L.threw /\ L.error = "Unknown app ID: " \o Str(options.appId)

\* an unknown app id has been named for a URI that does not validate, and
\* the arguments have been reported missing for an unknown app id
C13_Witness ==
   /\ link.called
   /\ options.appId = unknownApp
   /\ \/ options.upiUri = Some(Uris.noPn) /\ L.error = "Unknown app ID: unknown"
      \/ ~options.upiUri.defined /\ ~options.upiParams.defined
            /\ L.error = ArgumentMissing

\* C14 as stated: for every upiUri that parseUpiUri accepts, buildAppLink with
\* appId 'generic' and platform 'android' returns that URI unchanged as url.
C14_AsStated ==
   (/\ link.called
    /\ options.appId = generic
    /\ options.platform = "android"
    /\ Supplied(options.upiUri)
    /\ ~parseUpiUri(U).threw) => (~L.threw /\ L.value.url = U)

\* C15 as stated: whenever buildAppLink succeeds on a supplied upiUri, the
\* action of the GeneratedLink and the action token of its url (on android,
\* the host of the upi:// or intent:// url) equal the action token of that
\* upiUri.
C15_AsStated ==
   (link.called /\ Supplied(options.upiUri) /\ ~L.threw) =>
      /\ L.value.action = HostOf(U)
      /\ options.platform = "android" => HostOf(L.value.url) = HostOf(U)

\* the action argument, pay when it is left out
ActionArg == IF options.action.defined THEN options.action.value ELSE pay
\* the query string re-encoded from the parameters that parseUpiUri returns
\* for the base URI: upiUri if supplied, else the URI built from upiParams
BaseOf ==
   IF Supplied(options.upiUri) THEN U ELSE buildUpiUri(options.upiParams.value, ActionArg).value
QueryText == SearchParamsToString(AppendedPairs(parseUpiUri(BaseOf).value.params))
\* s ends with the characters of p; the number of places where p occurs in
\* s; p occurs in s
EndsWith(s, p) == Len(s) >= Len(p) /\ SubSeq(s, Len(s) - Len(p) + 1, Len(s)) = p
Count(s, p) ==
   Cardinality({i \in 1..(Len(s) - Len(p) + 1) : SubSeq(s, i, i + Len(p) - 1) = p})
Contains(s, p) == Count(s, p) > 0
\* enc is text percent-encoded as a whole value: every character of text
\* other than a letter, a digit and - _ . ! ~ * ' ( ) is written as % and
\* the two hexadecimal digits of its code, in place
PercentEncodes(enc, text) ==
   LET kept == Alnum \cup {"-", "_", ".", "!", "~", "*", "'", "(", ")"}
       before(i) == (i - 1) + 2 * Cardinality({j \in 1..(i - 1) : text[j] \notin kept})
   IN  /\ Len(enc) = before(Len(text) + 1)
       /\ \A i \in 1..Len(text) :
             IF text[i] \in kept THEN enc[before(i) + 1] = text[i]
             ELSE /\ enc[before(i) + 1] = "%"
                  /\ 16 * HexValue(enc[before(i) + 2]) + HexValue(enc[before(i) + 3])
                        = CharCode(text[i])
packageSegment == <<";", "p", "a", "c", "k", "a", "g", "e", "=">>
fallbackName ==
   <<"S", ".", "b", "r", "o", "w", "s", "e", "r", "_", "f", "a", "l", "l", "b", "a", "c",
     "k", "_", "u", "r", "l">>
\* the rest of an intent url after its package identifier, for a fallback
IntentTail(rest, fallback) ==
   IF Supplied(fallback)
   THEN /\ StartsWith(rest, <<";">> \o fallbackName \o <<"=">>)
        /\ EndsWith(rest, <<";", "e", "n", "d">>)
        /\ PercentEncodes(SubSeq(rest, Len(fallbackName) + 3, Len(rest) - 4),
                          fallback.value)
   ELSE rest = <<";", "e", "n", "d">>

\* C16: on android the url is 'upi://<action>?<query>' when the registry
\* entry has no Android package identifier; otherwise it is
\* 'intent://<action>?<query>#Intent;scheme=upi;package=<packageId>', followed
\* by ';S.browser_fallback_url=<percent-encoded fallback>' only if a fallback
\* was resolved, followed by ';end'.  Every intent url ends with ';end' and
\* has exactly one package segment.
C16_AndroidUrl ==
   (link.called /\ ~L.threw /\ options.platform = "android") =>
      LET package == RegistryEntry(options.appId).androidPackage
          head == <<"i", "n", "t", "e", "n", "t", ":", "/", "/">> \o ActionArg \o <<"?">>
                     \o QueryText
                     \o <<"#", "I", "n", "t", "e", "n", "t", ";", "s", "c", "h", "e",
                          "m", "e", "=", "u", "p", "i">>
                     \o packageSegment \o package.value
          link_url == L.value.url
      IN  IF ~Supplied(package)
          THEN link_url = <<"u", "p", "i", ":", "/", "/">> \o ActionArg \o <<"?">> \o QueryText
          ELSE /\ StartsWith(link_url, head)
               /\ IntentTail(SubSeq(link_url, Len(head) + 1, Len(link_url)),
                             L.value.fallbackUrl)
               /\ EndsWith(link_url, <<";", "e", "n", "d">>)
               /\ Count(link_url, packageSegment) = 1

\* an intent url with a fallback segment, one without (no fallback was
\* resolved though includeFallback was left at its default), and a upi://
\* url for the app without a package have been returned
C16_Witness ==
   /\ link.called
   /\ ~L.threw
   /\ options.platform = "android"
   /\ \/ options.appId = gpay /\ Contains(L.value.url, fallbackName)
            /\ options.upiUri = Some(Uris.untidy)
      \/ options.appId = amazonpay /\ ~Contains(L.value.url, fallbackName)
            /\ ~options.includeFallback.defined
      \/ options.appId = generic /\ StartsWith(L.value.url, <<"u", "p", "i", ":">>)

\* the registry's store URL of an app for a platform, undefined if the entry
\* has no stores or no URL for the platform
StoreOf(appId, platform) ==
   LET stores == RegistryEntry(appId).stores
   IN  IF ~stores.defined THEN Undefined
       ELSE IF platform = "android" THEN stores.value.play ELSE stores.value.app

\* C17: on android the fallback is resolved only if includeFallback is true
\* (the default): then it is the caller's fallbackUrl if given, else the
\* registry's Android store URL, else none.  When includeFallback is false the
\* fallbackUrl returned is undefined and the url has no S.browser_fallback_url
\* segment, even if the caller gave a fallbackUrl.
C17_AndroidFallback ==
   (link.called /\ ~L.threw /\ options.platform = "android") =>
      IF options.includeFallback = Some(FALSE)
      THEN L.value.fallbackUrl = Undefined /\ ~Contains(L.value.url, fallbackName)
      ELSE L.value.fallbackUrl =
              (IF Supplied(options.fallbackUrl) THEN options.fallbackUrl
               ELSE StoreOf(options.appId, "android"))

\* with includeFallback false a caller's fallbackUrl has been left out; with
\* it true or left out the caller's fallbackUrl, the store URL, and no
\* fallback at all have been returned
C17_Witness ==
   /\ link.called
   /\ ~L.threw
   /\ options.platform = "android"
   /\ \/ options.includeFallback = Some(FALSE) /\ options.fallbackUrl = Some(customFallback)
            /\ ~L.value.fallbackUrl.defined
      \/ options.includeFallback = Some(TRUE) /\ L.value.fallbackUrl = Some(customFallback)
      \/ ~options.includeFallback.defined /\ ~Supplied(options.fallbackUrl)
            /\ L.value.fallbackUrl = RegistryEntry(gpay).stores.value.play
      \/ options.appId = bhim /\ ~L.value.fallbackUrl.defined
            /\ options.includeFallback = Some(TRUE)

\* C18: on ios the fallback is resolved independently of includeFallback: the
\* fallbackUrl returned is the caller's fallbackUrl if given, else the
\* registry's iOS store URL (undefined if the registry has none); the result
\* is the same for includeFallback true, false and left out; and the fallback
\* is not in the url, neither as it is nor percent-encoded nor as an
\* S.browser_fallback_url segment.
C18_IosFallback ==
   (link.called /\ ~L.threw /\ options.platform = "ios") =>
      /\ L.value.fallbackUrl =
            (IF Supplied(options.fallbackUrl) THEN options.fallbackUrl
             ELSE StoreOf(options.appId, "ios"))
      /\ \A i \in Maybe(BOOLEAN) :
            buildAppLink([options EXCEPT !.includeFallback = i]) = L
      /\ ~Contains(L.value.url, fallbackName)
      /\ Supplied(L.value.fallbackUrl) =>
            /\ ~Contains(L.value.url, L.value.fallbackUrl.value)
            /\ ~Contains(L.value.url, encodeURIComponent(L.value.fallbackUrl.value))

\* on ios with includeFallback false, the caller's fallbackUrl, the App Store
\* URL, and no fallback at all have been returned
C18_Witness ==
   /\ link.called
   /\ ~L.threw
   /\ options.platform = "ios"
   /\ options.includeFallback = Some(FALSE)
   /\ \/ L.value.fallbackUrl = Some(customFallback)
      \/ ~Supplied(options.fallbackUrl)
            /\ L.value.fallbackUrl = RegistryEntry(gpay).stores.value.app
      \/ options.appId = amazonpay /\ ~L.value.fallbackUrl.defined

\* the iOS template of the registry for an app and an action
TemplateOf(appId, action) ==
   IF action = pay THEN RegistryEntry(appId).ios.pay ELSE RegistryEntry(appId).ios.mandate

\* C19: on ios, if the registry has no template for (appId, action) the url is
\* 'upi://<action>?<query>'; otherwise the url is the template with its
\* '{query}' placeholder replaced by the query string re-encoded from the
\* parsed parameters, and nothing else in the template is changed.
C19_IosUrl ==
   (link.called /\ ~L.threw /\ options.platform = "ios") =>
      LET template == TemplateOf(options.appId, ActionArg)
          placeholder == <<"{", "q", "u", "e", "r", "y", "}">>
      IN  IF template = <<>>
          THEN L.value.url = <<"u", "p", "i", ":", "/", "/">> \o ActionArg \o <<"?">>
                                \o QueryText
          ELSE \E i \in 1..(Len(template) - 6) :
                  /\ SubSeq(template, i, i + 6) = placeholder
                  /\ L.value.url = SubSeq(template, 1, i - 1) \o QueryText
                                      \o SubSeq(template, i + 7, Len(template))

\* the Google Pay template has been filled in, and an app without a template
\* for the action has got the upi:// form
C19_Witness ==
   /\ link.called
   /\ ~L.threw
   /\ options.platform = "ios"
   /\ \/ options.appId = gpay /\ StartsWith(L.value.url, <<"g", "p", "a", "y", ":">>)
            /\ ~Contains(L.value.url, <<"{">>)
      \/ options.appId = paytm /\ ActionArg = mandate
            /\ StartsWith(L.value.url, <<"u", "p", "i", ":", "/", "/", "m">>)

\* C20: every GeneratedLink carries app.id equal to the appId requested,
\* app.label equal to the registry label of that app, app.verified true if
\* and only if the registry's verification status is 'verified'
\* (community-observed gives false), and the platform requested.
C20_AppMetadata ==
   (link.called /\ ~L.threw) =>
      /\ L.value.app.id = options.appId
      /\ L.value.app.label = RegistryEntry(options.appId).label
      /\ L.value.app.verified <=>
            (RegistryEntry(options.appId).verification.status = "verified")
      /\ L.value.platform = options.platform

\* a link for a community-observed app has been returned with verified
\* false, and one for a verified app with verified true
C20_Witness ==
   /\ link.called
   /\ ~L.threw
   /\ \/ options.appId = phonepe /\ ~L.value.app.verified
            /\ L.value.app.label = "PhonePe"
      \/ options.appId = gpay /\ L.value.app.verified /\ L.value.app.label = "Google Pay"

(***************************************************************************)
(* Vocabulary of the properties of the utility functions.                  *)
(***************************************************************************)
\* the latest utility call and what it returned or threw
Op == IF util.called THEN util.op ELSE "none"
R == util.result
Agent == navigator.value.userAgent

\* the word, given in small letters, occurs in s in some mixture of cases
Mentions(s, word) ==
   \E i \in 1..(Len(s) - Len(word) + 1) :
      \A j \in 1..Len(word) :
         s[i + j - 1] \in {word[j], CharOfCode(CharCode(word[j]) - 32)}

AppleWords == {<<"i", "p", "h", "o", "n", "e">>, <<"i", "p", "a", "d">>, <<"i", "p", "o", "d">>}
ChromeWords == {<<"c", "h", "r", "o", "m", "e">>, <<"c", "h", "r", "o", "m", "i", "u", "m">>,
                <<"c", "r", "i", "o", "s">>}
android == <<"a", "n", "d", "r", "o", "i", "d">>
IosAgent == navigator.defined /\ \E w \in AppleWords : Mentions(Agent, w)

(***************************************************************************)
(* C21: detectPlatform returns 'ios' if and only if a user agent is        *)
(* available and contains iphone, ipad or ipod in any mixture of cases; in *)
(* every other case, no user agent available included, it returns          *)
(* 'android'.                                                              *)
(***************************************************************************)
C21_DetectPlatform ==
   Op = "detectPlatform" =>
      /\ R \in {"ios", "android"}
      /\ R = "ios" <=> IosAgent
      /\ ~navigator.defined => R = "android"

\* detectPlatform has answered ios for a user agent that writes the word in
\* capitals, and next to the word android
C21_Witness ==
   /\ Op = "detectPlatform"
   /\ R = "ios"
   /\ Contains(Agent, <<"I", "P", "A", "D">>)
   /\ Contains(Agent, <<"A", "n", "d", "r", "o", "i", "d">>)

(***************************************************************************)
(* C22: supportsIntentUrls is false for every user agent for which         *)
(* detectPlatform returns 'ios', whichever browser words the string        *)
(* contains.                                                               *)
(***************************************************************************)
C22_AsStated ==
   (Op = "supportsIntentUrls" /\ IosAgent /\ detectPlatform = "ios") => R = FALSE

(***************************************************************************)
(* C23: getBestLinkStrategy returns platform = detectPlatform(),           *)
(* supportsIntent = supportsIntentUrls(), and the recommendation 'intent'  *)
(* exactly when the platform is android and supportsIntent is true,        *)
(* 'scheme' exactly when the platform is ios, 'generic' exactly when the   *)
(* platform is android and supportsIntent is false; without a user agent   *)
(* the recommendation is 'generic'.                                        *)
(***************************************************************************)
C23_LinkStrategy ==
   Op = "getBestLinkStrategy" =>
      /\ DOMAIN R = {"platform", "supportsIntent", "recommendation"}
      /\ R.platform = detectPlatform
      /\ R.platform = "ios" <=> IosAgent
      /\ R.supportsIntent = supportsIntentUrls
      /\ R.supportsIntent <=>
            /\ navigator.defined
            /\ Mentions(Agent, android)
            /\ \E w \in ChromeWords : Mentions(Agent, w)
      /\ R.recommendation \in {"intent", "scheme", "generic"}
      /\ R.recommendation = "intent" <=> (R.platform = "android" /\ R.supportsIntent)
      /\ R.recommendation = "scheme" <=> R.platform = "ios"
      /\ R.recommendation = "generic" <=> (R.platform = "android" /\ ~R.supportsIntent)
      /\ ~navigator.defined => R.recommendation = "generic"

\* the strategy on a platform taken for ios whose user agent also passes the
\* test of the intent support: the recommendation is scheme
C23_Witness ==
   /\ Op = "getBestLinkStrategy"
   /\ R.platform = "ios"
   /\ R.supportsIntent
   /\ R.recommendation = "scheme"

\* the options that buildMultipleAppLinks hands to buildAppLink for the i-th
\* app of the latest call
TargetPlatform ==
   IF util.platform.defined THEN util.platform.value
   ELSE IF IosAgent THEN "ios" ELSE "android"
OptionsFor(i) ==
   [appId |-> util.appIds[i], upiUri |-> Some(util.upiUri), upiParams |-> Undefined,
    platform |-> TargetPlatform, action |-> Some(Default(util.action, pay)),
    fallbackUrl |-> Undefined, includeFallback |-> Undefined]
\* the apps of the latest call for which buildAppLink fails
Failing == {i \in 1..Len(util.appIds) : buildAppLink(OptionsFor(i)).threw}

(***************************************************************************)
(* C24: buildMultipleAppLinks(upiUri, appIds, platform, action) returns    *)
(* one GeneratedLink per element of appIds, in the same order, each equal  *)
(* to buildAppLink for that appId with the same upiUri, platform and       *)
(* action (platform defaulting to detectPlatform(), action to pay); if     *)
(* buildAppLink fails for any appId the whole call fails and no list is    *)
(* returned.                                                               *)
(***************************************************************************)
C24_MultipleAppLinks ==
   Op = "buildMultipleAppLinks" =>
      IF Failing # {}
      THEN /\ R.threw
           /\ R.error = buildAppLink(OptionsFor(Min(Failing))).error
      ELSE /\ ~R.threw
           /\ Len(R.value) = Len(util.appIds)
           /\ \A i \in 1..Len(util.appIds) :
                 /\ R.value[i] = buildAppLink(OptionsFor(i)).value
                 /\ R.value[i].app.id = util.appIds[i]
                 /\ R.value[i].platform = TargetPlatform
                 /\ R.value[i].action = Default(util.action, pay)

\* links for two apps, asked without a platform and without an action where
\* the user agent is one of an iPhone
C24_Witness ==
   /\ Op = "buildMultipleAppLinks"
   /\ ~util.platform.defined /\ ~util.action.defined
   /\ IosAgent
   /\ ~R.threw
   /\ Len(R.value) = 2
   /\ R.value[1].app.id = phonepe /\ R.value[2].app.id = generic
   /\ R.value[1].platform = "ios"

(***************************************************************************)
(* C25: every URI returned by createPaymentUri(pa, pn, amount?, note?) has *)
(* the action pay and contains cu=INR, also when no amount is given; it    *)
(* contains am if and only if an amount that is not empty after trimming   *)
(* was given, and tn if and only if such a note was given.                 *)
(***************************************************************************)
C25_PaymentUri ==
   (Op = "createPaymentUri" /\ ~R.threw) =>
      /\ StartsWith(R.value, <<"u", "p", "i", ":", "/", "/", "p", "a", "y", "?">>)
      /\ Contains(R.value, <<"c", "u", "=", "I", "N", "R">>)
      /\ \E j \in 1..Len(QueryOf(R.value)) : QueryOf(R.value)[j] = <<cu, INR>>
      /\ (\E j \in 1..Len(QueryOf(R.value)) : QueryOf(R.value)[j][1] = am)
            <=> (util.amount.defined /\ Strip(util.amount.value) # <<>>)
      /\ (\E j \in 1..Len(QueryOf(R.value)) : QueryOf(R.value)[j][1] = tn)
            <=> (util.note.defined /\ Strip(util.note.value) # <<>>)

\* a URI returned for a call without an amount and with a note that has white
\* space in front
C25_Witness ==
   /\ Op = "createPaymentUri"
   /\ ~R.threw
   /\ ~util.amount.defined
   /\ util.note.defined /\ Strip(util.note.value) # <<>>
   /\ util.note.value # Strip(util.note.value)
   /\ \E j \in 1..Len(QueryOf(R.value)) : QueryOf(R.value)[j] = <<cu, INR>>

(***************************************************************************)
(* C26: no operation of the core changes state it did not create.  After   *)
(* any sequence of calls to validateUpiParams, buildUpiUri, parseUpiUri    *)
(* and buildAppLink, successful or failing, the app registry and every     *)
(* parameter set and options object of the caller are what they were       *)
(* before the call, so that the result of a call does not depend on the    *)
(* calls made before it: each result is the one that the same call         *)
(* returns after every later call.                                         *)
(***************************************************************************)
C26_NoStateChanged ==
   [][/\ registry' = registry
      /\ params' = params
      /\ options' = options
      /\ registry' = appsData
      /\ validation'.called => validation'.result = validateUpiParams(params')
      /\ built'.called => built'.result = buildUpiUri(params', built'.action)
      /\ link'.called => link'.result = buildAppLink(options')
      /\ parsed'.called =>
            \/ /\ options'.upiUri.defined
               /\ parsed'.result = parseUpiUri(options'.upiUri.value)
            \/ /\ built'.called /\ ~built'.result.threw
               /\ parsed'.result = parseUpiUri(built'.result.value)]_vars

\* the four operations have been called on a parameter set that does not
\* validate and that the options name too: validation and build have failed,
\* the link was made from the URI of the options
C26_Witness ==
   /\ validation.called /\ built.called /\ parsed.called /\ link.called
   /\ ~V.isValid
   /\ B.threw
   /\ options.upiParams = Some(params)
   /\ ~L.threw

(***************************************************************************)
(* C27: when both upiUri and upiParams are supplied to buildAppLink, the   *)
(* call does not fail for that reason: upiUri alone determines the result, *)
(* upiParams is neither validated nor used, and the result is the one of   *)
(* the same call without upiParams, also when upiParams is invalid.        *)
(***************************************************************************)
C27_UriWinsOverParams ==
   (link.called /\ Supplied(options.upiUri) /\ options.upiParams.defined) =>
      /\ L = buildAppLink([options EXCEPT !.upiParams = Undefined])
      /\ L.threw => L.error # ArgumentMissing
      /\ (InRegistry(options.appId) /\ ~parseUpiUri(U).threw) => ~L.threw

\* a link was returned for a call with a URI and with a parameter set that
\* does not validate
C27_Witness ==
   /\ link.called
   /\ Supplied(options.upiUri)
   /\ options.upiParams.defined
   /\ ~validateUpiParams(options.upiParams.value).isValid
   /\ ~L.threw

(***************************************************************************)
(* C28: normalization is idempotent.  For every input p,                   *)
(* validateUpiParams(validateUpiParams(p).normalizedParams)                *)
(* .normalizedParams equals validateUpiParams(p).normalizedParams; and     *)
(* when validateUpiParams(p).isValid is true, validating the normalized    *)
(* set is again valid, with no errors.                                     *)
(***************************************************************************)
C28_NormalizeIdempotent ==
   validation.called =>
      /\ validateUpiParams(V.normalizedParams).normalizedParams = V.normalizedParams
      /\ V.isValid =>
            /\ validateUpiParams(V.normalizedParams).isValid
            /\ validateUpiParams(V.normalizedParams).errors = <<>>

\* a valid parameter set that normalization changes: the amount loses white
\* space and the currency is filled in
C28_Witness ==
   /\ validation.called
   /\ V.isValid
   /\ V.normalizedParams # params
   /\ Has(V.normalizedParams, cu) /\ ~Has(params, cu)
   /\ Get(params, am) # Strip(Get(params, am))

(***************************************************************************)
(* C29: for every input to validateUpiParams, valid or not, every          *)
(* recognized key present in normalizedParams satisfies its own rule       *)
(* (length, pattern, allowed values), so cu is 'INR' whenever it is        *)
(* present, also when the caller supplied a rejected cu together with a    *)
(* valid am; and isValid = true implies that normalizedParams contains     *)
(* both pa and pn.                                                         *)
(***************************************************************************)
C29_NormalizedSatisfyRules ==
   validation.called =>
      /\ \A i \in 1..Len(V.normalizedParams) :
            V.normalizedParams[i][1] \in RuleKeys =>
               /\ V.normalizedParams[i][2] # <<>>
               /\ FirstFailure(V.normalizedParams[i][1], V.normalizedParams[i][2]) = "none"
      /\ Has(V.normalizedParams, cu) => Get(V.normalizedParams, cu) = INR
      /\ V.isValid => (Has(V.normalizedParams, pa) /\ Has(V.normalizedParams, pn))

\* a rejected cu was supplied next to an accepted amount: the result is not
\* valid and its normalized set has cu = INR
C29_Witness ==
   /\ validation.called
   /\ ~V.isValid
   /\ Has(params, cu) /\ Strip(Get(params, cu)) # INR
   /\ Has(V.normalizedParams, am)
   /\ Has(V.normalizedParams, cu) /\ Get(V.normalizedParams, cu) = INR

\* the text that opens the fallback segment of an intent url
fallbackSegment == <<";">> \o fallbackName \o <<"=">>

(***************************************************************************)
(* C30: for every GeneratedLink returned by buildAppLink, url contains an  *)
(* S.browser_fallback_url segment if and only if the platform is android,  *)
(* the app has an Android package identifier and a fallback was resolved,  *)
(* and in that case the segment is the percent-encoding of the returned    *)
(* fallbackUrl; for an android app without a package identifier the        *)
(* returned fallbackUrl can be set while url carries no fallback.          *)
(***************************************************************************)
C30_FallbackSegment ==
   (link.called /\ ~L.threw) =>
      /\ Contains(L.value.url, fallbackName)
            <=> /\ options.platform = "android"
                /\ Supplied(RegistryEntry(options.appId).androidPackage)
                /\ Supplied(L.value.fallbackUrl)
      /\ Contains(L.value.url, fallbackName) =>
            /\ Count(L.value.url, fallbackSegment) = 1
            /\ Count(L.value.url, fallbackName) = 1
            /\ EndsWith(L.value.url, <<";", "e", "n", "d">>)
            /\ \E at \in 1..(Len(L.value.url) - Len(fallbackSegment) - 3) :
                  /\ SubSeq(L.value.url, at, at + Len(fallbackSegment) - 1) = fallbackSegment
                  /\ PercentEncodes(SubSeq(L.value.url, at + Len(fallbackSegment),
                                           Len(L.value.url) - 4),
                                    L.value.fallbackUrl.value)

\* on android, a link for an app with a package whose url carries the
\* caller's fallback URL, and a link for the app without a package that
\* returns the caller's fallback URL next to a url without a segment
C30_Witness ==
   /\ link.called
   /\ ~L.threw
   /\ options.platform = "android"
   /\ L.value.fallbackUrl = Some(customFallback)
   /\ \/ options.appId = phonepe /\ Contains(L.value.url, fallbackSegment)
      \/ options.appId = generic /\ ~Contains(L.value.url, fallbackName)

====
